---- MODULE Spec2Model ----
(***************************************************************************)
(* Design Decision Logger (Figma plugin), backend side.                    *)
(*                                                                         *)
(* The model follows the TypeScript source with the visual log             *)
(* (src/unnamed/part_002): two in-memory collections, the two blobs kept   *)
(* in the document's shared plugin data, the document-change check, the    *)
(* message handlers and the asynchronous visual-log operations.            *)
(*                                                                         *)
(* A JavaScript object is a function from its own keys to values.  A key   *)
(* of a text field may hold the value Undefined (an own key whose value is *)
(* undefined); JSON.stringify drops such keys.                             *)
(*                                                                         *)
(* A handler is run-to-completion up to its first await: that part is one  *)
(* action.  What follows an await is a pending task, resumed by TaskStep.  *)
(***************************************************************************)
EXTENDS Integers, Sequences, FiniteSets, Bags, TLC

(***************************************************************************)
(* Bounds of the model.                                                    *)
(***************************************************************************)
MaxClock == 2      \* Date.now() ranges over 1..MaxClock
MaxLen == 2        \* create is offered while the collection is shorter
MaxTasks == 2      \* pending asynchronous continuations

(***************************************************************************)
(* JavaScript values.                                                      *)
(***************************************************************************)
Undefined == "<undefined>"
NoUser == "<null>"

\* truthiness of a string value
Truthy(v) == v # "" /\ v # Undefined

\* keys whose values are strings (the only ones that may hold Undefined)
TextKeys == {"id", "title", "rationale", "context", "author", "status",
             "nodeId", "nodeName", "pageName", "description", "url",
             "category"}

\* o.k
Get(o, k) == IF k \in DOMAIN o THEN o[k] ELSE Undefined

\* o.k is not undefined
HasVal(o, k) == k \in DOMAIN o /\ (k \in TextKeys => o[k] # Undefined)

\* msg.k || []
OrEmpty(o, k) == IF k \in DOMAIN o THEN o[k] ELSE <<>>

Digits == <<"0", "1", "2", "3", "4", "5", "6", "7", "8", "9">>

RECURSIVE NumToString(_)
\* Number.prototype.toString for a non-negative integer
NumToString(n) ==
    IF n < 10 THEN Digits[n + 1]
    ELSE NumToString(n \div 10) \o Digits[(n % 10) + 1]

(***************************************************************************)
(* Host documents.                                                         *)
(***************************************************************************)
Docs == {"fileA", "fileB"}

FileKey(d) == d
RootId(d) == "0:0"
RootName(d) == IF d = "fileA" THEN "Logo" ELSE ""

\* figma.fileKey || figma.root.id
DocumentId(d) == IF Truthy(FileKey(d)) THEN FileKey(d) ELSE RootId(d)

\* figma.root.name || 'Untitled'
FileName(d) == IF Truthy(RootName(d)) THEN RootName(d) ELSE "Untitled"

DECISIONS_KEY == "designDecisions"
RESOURCES_KEY == "designResources"

\* The pages and nodes of a document.  Every document has a page 'Page 1'
\* (node "0:1") that holds two scene nodes, "1:2" and "1:3"; the page of
\* the visual log is 'Design Decisions'.
HomePage == "Page 1"
LogPage == "Design Decisions"

\* figma.getNodeByIdAsync(id) resolves to a node (not to null)
NodeExists(id) == id \in {"0:1", "1:2", "1:3"}

\* node.name
NodeName(id) ==
    CASE id = "1:2" -> "Button"
      [] id = "1:3" -> "Label"
      [] OTHER -> HomePage

\* the page found by walking up from the node: the name of the first
\* ancestor whose parent is a PAGE, Undefined when the walk ends at the
\* document (the node is a page)
PageOfNode(id) == IF id \in {"1:2", "1:3"} THEN HomePage ELSE Undefined

(***************************************************************************)
(* JSON.  A blob is what getSharedPluginData returns: the empty string     *)
(* (kind "empty"), a JSON text (kind "json", value: the encoded array) or  *)
(* a text that does not parse (kind "garbage").                            *)
(***************************************************************************)
EmptyBlob == [kind |-> "empty", value |-> <<>>]
GarbageBlob == [kind |-> "garbage", value |-> <<>>]

\* JSON.stringify of one object: keys holding undefined are dropped
StringifyObject(o) ==
    [k \in {j \in DOMAIN o : HasVal(o, j)} |-> o[k]]

\* JSON.stringify(list)
JSONstringify(list) ==
    [kind |-> "json",
     value |-> [i \in 1..Len(list) |-> StringifyObject(list[i])]]

\* JSON.parse throws
ParseThrows(blob) == blob.kind = "garbage"

\* JSON.parse(blob), for a blob that parses
JSONparse(blob) == blob.value

\* if (saved): a string is truthy unless it is empty
BlobTruthy(blob) == blob.kind # "empty"

(***************************************************************************)
(* State.                                                                  *)
(***************************************************************************)
VARIABLES
    liveDoc,            \* the document the host shows (figma.root)
    stored,             \* stored[d][key]: shared plugin data of document d
    page,               \* page[d]: the 'Design Decisions' page of d
    rows,               \* rows[d]: the decision rows of its 'Decision Log'
    decisions,          \* let decisions
    resources,          \* let resources
    currentDocumentId,  \* let currentDocumentId
    user,               \* figma.currentUser?.name, NoUser when there is none
    now,                \* the value Date.now() returns
    tasks,              \* bag of continuations pending on a host call
    savesOk,            \* history: no save call has failed so far
    currentPage,        \* currentPage[d]: the name of figma.currentPage
    selection,          \* selection[d]: figma.currentPage.selection, node ids
    viewport,           \* viewport[d]: the node figma.viewport shows, or "origin"
    env                 \* what the environment of this run may do

vars == <<liveDoc, stored, page, rows, decisions, resources,
          currentDocumentId, user, now, tasks, savesOk, currentPage,
          selection, viewport, env>>

\* The state as one value: handlers are written as functions of it.  The
\* field fx collects the host calls a handler makes, in order.
Here ==
    [live |-> liveDoc, stored |-> stored, page |-> page, rows |-> rows,
     decisions |-> decisions, resources |-> resources,
     cur |-> currentDocumentId, user |-> user, now |-> now,
     tasks |-> tasks, fx |-> <<>>, ok |-> savesOk,
     currentPage |-> currentPage, selection |-> selection,
     viewport |-> viewport]

Becomes(s) ==
    /\ liveDoc' = s.live
    /\ stored' = s.stored
    /\ page' = s.page
    /\ rows' = s.rows
    /\ decisions' = s.decisions
    /\ resources' = s.resources
    /\ currentDocumentId' = s.cur
    /\ user' = s.user
    /\ now' = s.now
    /\ tasks' = s.tasks
    /\ savesOk' = s.ok
    /\ currentPage' = s.currentPage
    /\ selection' = s.selection
    /\ viewport' = s.viewport
    /\ UNCHANGED env

(***************************************************************************)
(* Host calls that the UI or the user can observe.                         *)
(***************************************************************************)
\* figma.ui.postMessage({type, ...body})
PostMessage(s, type, body) ==
    [s EXCEPT !.fx = Append(@, body @@ [api |-> "postMessage", type |-> type])]

\* figma.notify(text)
Notify(s, text) ==
    [s EXCEPT !.fx = Append(@, [api |-> "notify", text |-> text])]

\* a variant of SendSelectionInfo that reports nothing of a selection of
\* several elements
SendSelectionInfoOfOne(s) ==
    LET sel == s.selection[s.live]
    IN PostMessage(s, "selection-info",
                   IF Len(sel) = 1
                   THEN [nodeId |-> sel[1],
                         nodeName |-> NodeName(sel[1]),
                         pageName |-> s.currentPage[s.live]]
                   ELSE [nodeId |-> Undefined, nodeName |-> Undefined,
                         pageName |-> Undefined])

\* sendSelectionInfo(): null is written Undefined
SendSelectionInfo(s) ==
    LET sel == s.selection[s.live]
    IN PostMessage(s, "selection-info",
                   IF Len(sel) = 1
                   THEN [nodeId |-> sel[1],
                         nodeName |-> NodeName(sel[1]),
                         pageName |-> s.currentPage[s.live]]
                   ELSE IF Len(sel) > 1
                   THEN [nodeId |-> Undefined,
                         nodeName |-> "Multiple items ("
                                         \o NumToString(Len(sel)) \o ")",
                         pageName |-> s.currentPage[s.live]]
                   ELSE [nodeId |-> Undefined, nodeName |-> Undefined,
                         pageName |-> Undefined])

(***************************************************************************)
(* Persistence.                                                            *)
(***************************************************************************)
\* figma.root.setSharedPluginData(ns, key, text); throws when ok is FALSE
SetSharedPluginData(s, key, blob, ok) ==
    [s EXCEPT !.stored[s.live][key] = IF ok THEN blob ELSE @,
              !.fx = Append(@, [api |-> "setSharedPluginData", key |-> key,
                                ok |-> ok]),
              !.ok = @ /\ ok]

SaveDecisionsToDocument(s, ok) ==
    SetSharedPluginData(s, DECISIONS_KEY, JSONstringify(s.decisions), ok)

SaveResourcesToDocument(s, ok) ==
    SetSharedPluginData(s, RESOURCES_KEY, JSONstringify(s.resources), ok)

(***************************************************************************)
(* Visual log.  page[d] is "none" (no page named 'Design Decisions'),      *)
(* "bare" (the page is created and named, its 'Decision Log' container is  *)
(* not appended yet) or "ready".                                           *)
(***************************************************************************)
NoDecision == [id |-> Undefined]

\* status.toUpperCase()
ToUpperCase(v) ==
    CASE v = "proposed" -> "PROPOSED"
      [] v = "accepted" -> "ACCEPTED"
      [] v = "rejected" -> "REJECTED"
      [] v = "deprecated" -> "DEPRECATED"
      [] v = "superseded" -> "SUPERSEDED"
      [] OTHER -> v

RECURSIVE Join(_)
\* tags.join(', ')
Join(list) ==
    IF list = <<>> THEN ""
    ELSE IF Len(list) = 1 THEN list[1]
    ELSE list[1] \o ", " \o Join(Tail(list))

\* `Decision: ${title}`
RowName(title) == "Decision: " \o title

\* createDecisionRow throws a TypeError (a method call on undefined)
RowThrows(d) ==
    ~HasVal(d, "status") \/ ~HasVal(d, "context") \/ ~HasVal(d, "rationale")

\* createDecisionRow(decision): the row's name and its cells
CreateDecisionRow(d) ==
    [name |-> RowName(Get(d, "title")),
     title |-> Get(d, "title"),
     status |-> ToUpperCase(d["status"]),
     author |-> Get(d, "author"),
     tags |-> IF "tags" \in DOMAIN d THEN Join(d["tags"]) ELSE ""]

\* containerFrame.findOne(node => node.name === name): index, 0 when none
FindRow(list, name) ==
    IF \E i \in 1..Len(list) : list[i].name = name
    THEN CHOOSE i \in 1..Len(list) :
            /\ list[i].name = name
            /\ \A j \in 1..(i - 1) : list[j].name # name
    ELSE 0

\* node.remove()
RemoveAt(list, i) ==
    [j \in 1..(Len(list) - 1) |-> IF j < i THEN list[j] ELSE list[j + 1]]

RECURSIVE SortNewestFirst(_)
\* [...decisions].sort((a, b) => b.timestamp - a.timestamp), a stable sort
SortNewestFirst(list) ==
    IF list = <<>> THEN <<>>
    ELSE LET i == CHOOSE k \in 1..Len(list) :
                    /\ \A j \in 1..Len(list) :
                          list[j]["timestamp"] <= list[k]["timestamp"]
                    /\ \A j \in 1..(k - 1) :
                          list[j]["timestamp"] < list[k]["timestamp"]
         IN <<list[i]>> \o SortNewestFirst(RemoveAt(list, i))

Task(kind, pc, d, decision, todo) ==
    [kind |-> kind, pc |-> pc, doc |-> d, decision |-> decision, todo |-> todo]

Spawn(s, t) == [s EXCEPT !.tasks = @ (+) SetToBag({t})]

\* getOrCreateDesignDecisionsPage up to its first await: an existing page is
\* returned, otherwise the page is created and named at once
GetOrCreatePageSync(s) ==
    IF s.page[s.live] # "none" THEN s
    ELSE [s EXCEPT !.page[s.live] = "bare"]

\* the pc at which a caller of getOrCreateDesignDecisionsPage waits
AwaitPage(s, found) == IF s.page[s.live] # "none" THEN found ELSE "page"

\* addDecisionToVisualLog(decision) up to its first await
AddDecisionToVisualLog(s, d) ==
    Spawn(GetOrCreatePageSync(s),
          Task("add", AwaitPage(s, "switch"), s.live, d, <<>>))

\* a variant of UpdateDecisionInVisualLog that draws a row also when it
\* found none to replace
UpdateDecisionInVisualLogAdding(s, d) ==
    LET i == FindRow(s.rows[s.live], RowName(Get(d, "title")))
    IN IF s.page[s.live] # "ready" THEN s
       ELSE Spawn([s EXCEPT !.rows[s.live] =
                               IF i = 0 THEN @ ELSE RemoveAt(@, i)],
                  Task("update", "row", s.live, d, <<>>))

\* a variant of UpdateDecisionInVisualLog that leaves the row it found in
\* the container
UpdateDecisionInVisualLogKeeping(s, d) ==
    LET i == FindRow(s.rows[s.live], RowName(Get(d, "title")))
    IN IF s.page[s.live] # "ready" \/ i = 0 THEN s
       ELSE Spawn(s, Task("update", "row", s.live, d, <<>>))

\* updateDecisionInVisualLog(decision) up to its first await
UpdateDecisionInVisualLog(s, d) ==
    LET i == FindRow(s.rows[s.live], RowName(Get(d, "title")))
    IN IF s.page[s.live] # "ready" \/ i = 0 THEN s
       ELSE Spawn([s EXCEPT !.rows[s.live] = RemoveAt(@, i)],
                  Task("update", "row", s.live, d, <<>>))

\* deleteDecisionFromVisualLog(title): it has no await
DeleteDecisionFromVisualLog(s, title) ==
    LET i == FindRow(s.rows[s.live], RowName(title))
    IN IF s.page[s.live] # "ready" \/ i = 0 THEN s
       ELSE [s EXCEPT !.rows[s.live] = RemoveAt(@, i)]

\* rebuildVisualLog() up to its first await
RebuildVisualLog(s) ==
    IF Len(s.decisions) = 0 THEN s
    ELSE Spawn(GetOrCreatePageSync(s),
               Task("rebuild", AwaitPage(s, "start"), s.live, NoDecision, <<>>))

(***************************************************************************)
(* Loading.                                                                *)
(***************************************************************************)
\* a variant of LoadFailed that does not tell the UI
LoadFailedQuietly(s) ==
    LET s1 == Notify(s, "Error loading saved data")
    IN [s1 EXCEPT !.decisions = <<>>, !.resources = <<>>]

\* the catch branch of initializePlugin
LoadFailed(s) ==
    LET s1 == Notify(s, "Error loading saved data")
        s2 == [s1 EXCEPT !.decisions = <<>>, !.resources = <<>>]
        s3 == PostMessage(s2, "load-decisions", [decisions |-> <<>>])
    IN PostMessage(s3, "load-resources", [resources |-> <<>>])

\* a variant of LoadDecisions without the else branch: with nothing saved in
\* the document, the collection in memory is kept
LoadDecisionsKeeping(s) ==
    LET saved == s.stored[s.live][DECISIONS_KEY]
        list == IF BlobTruthy(saved) THEN JSONparse(saved) ELSE s.decisions
    IN PostMessage([s EXCEPT !.decisions = list], "load-decisions",
                   [decisions |-> list, documentId |-> s.cur,
                    fileName |-> FileName(s.live)])

\* the decisions half of the try block
LoadDecisions(s) ==
    LET saved == s.stored[s.live][DECISIONS_KEY]
        list == IF BlobTruthy(saved) THEN JSONparse(saved) ELSE <<>>
    IN PostMessage([s EXCEPT !.decisions = list], "load-decisions",
                   [decisions |-> list, documentId |-> s.cur,
                    fileName |-> FileName(s.live)])

\* the resources half of the try block
LoadResources(s) ==
    LET saved == s.stored[s.live][RESOURCES_KEY]
        list == IF BlobTruthy(saved) THEN JSONparse(saved) ELSE <<>>
    IN PostMessage([s EXCEPT !.resources = list], "load-resources",
                   [resources |-> list])

\* initializePlugin() up to its first await
InitializePlugin(s) ==
    LET s1 == [s EXCEPT !.cur = DocumentId(s.live)]
        sd == s.stored[s.live][DECISIONS_KEY]
        sr == s.stored[s.live][RESOURCES_KEY]
        s2 == IF BlobTruthy(sd) /\ ParseThrows(sd) THEN LoadFailed(s1)
              ELSE IF BlobTruthy(sr) /\ ParseThrows(sr)
                   THEN LoadFailed(LoadDecisions(s1))
                   ELSE LoadResources(LoadDecisions(s1))
    IN IF Len(s2.decisions) > 0 THEN RebuildVisualLog(s2)
       ELSE SendSelectionInfo(s2)

\* a variant of CheckForDocumentChange that never reloads
CheckForDocumentChangeNever(s) == s

\* checkForDocumentChange(): `a !== b || c` groups as `(a !== b) || c`
CheckForDocumentChange(s) ==
    IF (s.cur # FileKey(s.live)) \/ Truthy(RootId(s.live))
    THEN InitializePlugin(s)
    ELSE s

(***************************************************************************)
(* The message handler, one operator per case of the switch.  saveOk is    *)
(* what the save call returns.  The Date.now() calls of one handler run    *)
(* are taken within the same millisecond.                                  *)
(***************************************************************************)
\* figma.currentUser?.name || 'Unknown'
AuthorName(s) == IF s.user # NoUser /\ Truthy(s.user) THEN s.user ELSE "Unknown"

\* list.findIndex(r => r.id === id): index, 0 when none
FindIndex(list, id) ==
    IF \E i \in 1..Len(list) : Get(list[i], "id") = id
    THEN CHOOSE i \in 1..Len(list) :
            /\ Get(list[i], "id") = id
            /\ \A j \in 1..(i - 1) : Get(list[j], "id") # id
    ELSE 0

\* list.filter(r => r.id !== id)
FilterOut(list, id) == SelectSeq(list, LAMBDA r : Get(r, "id") # id)

\* a variant of Replacement that takes the author from the incoming record
ReplacementTrustingCaller(incoming, old, t) ==
    [k \in (DOMAIN incoming) \cup {"timestamp"} |->
        IF k = "timestamp" THEN t ELSE incoming[k]]

\* a variant of Replacement that merges the incoming record into the old
\* one
ReplacementMerging(incoming, old, t) ==
    [k \in (DOMAIN old) \cup (DOMAIN incoming) \cup {"timestamp", "author"} |->
        IF k = "timestamp" THEN t
        ELSE IF k = "author" THEN Get(old, "author")
        ELSE IF k \in DOMAIN incoming THEN incoming[k]
        ELSE old[k]]

\* a variant of Replacement that keeps the timestamp of the incoming record
ReplacementKeepingTime(incoming, old, t) ==
    [k \in (DOMAIN incoming) \cup {"timestamp", "author"} |->
        IF k = "timestamp" THEN Get(incoming, "timestamp")
        ELSE IF k = "author" THEN Get(old, "author")
        ELSE incoming[k]]

\* {...incoming, timestamp: Date.now(), author: old.author}
Replacement(incoming, old, t) ==
    [k \in (DOMAIN incoming) \cup {"timestamp", "author"} |->
        IF k = "timestamp" THEN t
        ELSE IF k = "author" THEN Get(old, "author")
        ELSE incoming[k]]

NewResource(s, msg) ==
    [id |-> NumToString(s.now),
     title |-> Get(msg, "title"),
     description |-> Get(msg, "description"),
     url |-> Get(msg, "url"),
     category |-> Get(msg, "category"),
     timestamp |-> s.now,
     author |-> AuthorName(s),
     tags |-> OrEmpty(msg, "tags")]

\* a variant of CreateResource that puts the new record first
CreateResourcePrepending(s, msg, saveOk) ==
    LET newResource == NewResource(s, msg)
        s1 == [s EXCEPT !.resources = <<newResource>> \o @]
        s2 == SaveResourcesToDocument(s1, saveOk)
    IN IF saveOk
       THEN Notify(PostMessage(s2, "resource-created",
                               [resource |-> newResource]),
                   "Resource added successfully")
       ELSE Notify(s2, "Error saving resource")

CreateResource(s, msg, saveOk) ==
    LET newResource == NewResource(s, msg)
        s1 == [s EXCEPT !.resources = Append(@, newResource)]
        s2 == SaveResourcesToDocument(s1, saveOk)
    IN IF saveOk
       THEN Notify(PostMessage(s2, "resource-created",
                               [resource |-> newResource]),
                   "Resource added successfully")
       ELSE Notify(s2, "Error saving resource")

\* a variant of NewDecision that takes the status as the message has it
NewDecisionWithoutDefault(s, msg) ==
    [id |-> NumToString(s.now),
     title |-> Get(msg, "title"),
     rationale |-> Get(msg, "rationale"),
     context |-> Get(msg, "context"),
     timestamp |-> s.now,
     author |-> AuthorName(s),
     links |-> OrEmpty(msg, "links"),
     pros |-> OrEmpty(msg, "pros"),
     cons |-> OrEmpty(msg, "cons"),
     tags |-> OrEmpty(msg, "tags"),
     nodeId |-> Get(msg, "nodeId"),
     nodeName |-> Get(msg, "nodeName"),
     pageName |-> Get(msg, "pageName"),
     status |-> Get(msg, "status")]

NewDecision(s, msg) ==
    [id |-> NumToString(s.now),
     title |-> Get(msg, "title"),
     rationale |-> Get(msg, "rationale"),
     context |-> Get(msg, "context"),
     timestamp |-> s.now,
     author |-> AuthorName(s),
     links |-> OrEmpty(msg, "links"),
     pros |-> OrEmpty(msg, "pros"),
     cons |-> OrEmpty(msg, "cons"),
     tags |-> OrEmpty(msg, "tags"),
     nodeId |-> Get(msg, "nodeId"),
     nodeName |-> Get(msg, "nodeName"),
     pageName |-> Get(msg, "pageName"),
     status |-> IF Truthy(Get(msg, "status")) THEN msg["status"]
                ELSE "proposed"]

\* a variant of CreateDecision that saves before it appends
CreateDecisionSavingFirst(s, msg, saveOk) ==
    LET newDecision == NewDecision(s, msg)
        s1 == SaveDecisionsToDocument(s, saveOk)
        s2 == [s1 EXCEPT !.decisions = Append(@, newDecision)]
    IN IF saveOk
       THEN AddDecisionToVisualLog(
                Notify(PostMessage(s2, "decision-created",
                                   [decision |-> newDecision]),
                       "Decision logged successfully"),
                newDecision)
       ELSE Notify(s2, "Error saving decision")

CreateDecision(s, msg, saveOk) ==
    LET newDecision == NewDecision(s, msg)
        s1 == [s EXCEPT !.decisions = Append(@, newDecision)]
        s2 == SaveDecisionsToDocument(s1, saveOk)
    IN IF saveOk
       THEN AddDecisionToVisualLog(
                Notify(PostMessage(s2, "decision-created",
                                   [decision |-> newDecision]),
                       "Decision logged successfully"),
                newDecision)
       ELSE Notify(s2, "Error saving decision")

\* a variant of EditDecision that reports the record as the message has it
EditDecisionEchoing(s, msg, saveOk) ==
    LET index == FindIndex(s.decisions, Get(msg.decision, "id"))
        s1 == [s EXCEPT !.decisions[index] =
                            Replacement(msg.decision, @, s.now)]
        s2 == SaveDecisionsToDocument(s1, saveOk)
    IN IF index = 0 THEN s
       ELSE IF saveOk
       THEN UpdateDecisionInVisualLog(
                Notify(PostMessage(s2, "decision-updated",
                                   [decision |-> msg.decision]),
                       "Decision updated successfully"),
                s2.decisions[index])
       ELSE Notify(s2, "Error updating decision")

EditDecision(s, msg, saveOk) ==
    LET index == FindIndex(s.decisions, Get(msg.decision, "id"))
        s1 == [s EXCEPT !.decisions[index] =
                            Replacement(msg.decision, @, s.now)]
        s2 == SaveDecisionsToDocument(s1, saveOk)
    IN IF index = 0 THEN s
       ELSE IF saveOk
       THEN UpdateDecisionInVisualLog(
                Notify(PostMessage(s2, "decision-updated",
                                   [decision |-> s2.decisions[index]]),
                       "Decision updated successfully"),
                s2.decisions[index])
       ELSE Notify(s2, "Error updating decision")

\* a variant of DeleteDecision that saves before it filters
DeleteDecisionSavingFirst(s, msg, saveOk) ==
    LET index == FindIndex(s.decisions, msg.id)
        decisionTitle == IF index # 0 /\ Truthy(Get(s.decisions[index], "title"))
                         THEN s.decisions[index]["title"] ELSE ""
        s1 == SaveDecisionsToDocument(s, saveOk)
        s2 == [s1 EXCEPT !.decisions = FilterOut(@, msg.id)]
        s3 == Notify(PostMessage(s2, "decision-deleted", [id |-> msg.id]),
                     "Decision deleted successfully")
    IN IF saveOk
       THEN IF Truthy(decisionTitle)
            THEN DeleteDecisionFromVisualLog(s3, decisionTitle)
            ELSE s3
       ELSE Notify(s2, "Error deleting decision")

DeleteDecision(s, msg, saveOk) ==
    LET index == FindIndex(s.decisions, msg.id)
        decisionTitle == IF index # 0 /\ Truthy(Get(s.decisions[index], "title"))
                         THEN s.decisions[index]["title"] ELSE ""
        s1 == [s EXCEPT !.decisions = FilterOut(@, msg.id)]
        s2 == SaveDecisionsToDocument(s1, saveOk)
        s3 == Notify(PostMessage(s2, "decision-deleted", [id |-> msg.id]),
                     "Decision deleted successfully")
    IN IF saveOk
       THEN IF Truthy(decisionTitle)
            THEN DeleteDecisionFromVisualLog(s3, decisionTitle)
            ELSE s3
       ELSE Notify(s2, "Error deleting decision")

\* a variant of EditResource that acknowledges whatever the save returns
EditResourceOptimistic(s, msg, saveOk) ==
    LET index == FindIndex(s.resources, Get(msg.resource, "id"))
        s1 == [s EXCEPT !.resources[index] =
                            Replacement(msg.resource, @, s.now)]
        s2 == SaveResourcesToDocument(s1, saveOk)
    IN IF index = 0 THEN s
       ELSE Notify(PostMessage(s2, "resource-updated",
                               [resource |-> s2.resources[index]]),
                   "Resource updated successfully")

EditResource(s, msg, saveOk) ==
    LET index == FindIndex(s.resources, Get(msg.resource, "id"))
        s1 == [s EXCEPT !.resources[index] =
                            Replacement(msg.resource, @, s.now)]
        s2 == SaveResourcesToDocument(s1, saveOk)
    IN IF index = 0 THEN s
       ELSE IF saveOk
       THEN Notify(PostMessage(s2, "resource-updated",
                               [resource |-> s2.resources[index]]),
                   "Resource updated successfully")
       ELSE Notify(s2, "Error updating resource")

\* a variant of DeleteResource without the else branch
DeleteResourceSilentOnFailure(s, msg, saveOk) ==
    LET s1 == [s EXCEPT !.resources = FilterOut(@, msg.id)]
        s2 == SaveResourcesToDocument(s1, saveOk)
    IN IF saveOk
       THEN Notify(PostMessage(s2, "resource-deleted", [id |-> msg.id]),
                   "Resource deleted successfully")
       ELSE s2

\* a variant of DeleteResource that returns early when no record has the id
DeleteResourceIfFound(s, msg, saveOk) ==
    LET s1 == [s EXCEPT !.resources = FilterOut(@, msg.id)]
        s2 == SaveResourcesToDocument(s1, saveOk)
    IN IF FindIndex(s.resources, msg.id) = 0 THEN s
       ELSE IF saveOk
       THEN Notify(PostMessage(s2, "resource-deleted", [id |-> msg.id]),
                   "Resource deleted successfully")
       ELSE Notify(s2, "Error deleting resource")

DeleteResource(s, msg, saveOk) ==
    LET s1 == [s EXCEPT !.resources = FilterOut(@, msg.id)]
        s2 == SaveResourcesToDocument(s1, saveOk)
    IN IF saveOk
       THEN Notify(PostMessage(s2, "resource-deleted", [id |-> msg.id]),
                   "Resource deleted successfully")
       ELSE Notify(s2, "Error deleting resource")

GetUserInfo(s) ==
    PostMessage(s, "user-info", [name |-> s.user])

GetDocumentId(s) ==
    PostMessage(s, "document-id",
                [documentId |-> DocumentId(s.live),
                 fileName |-> FileName(s.live)])

\* case 'navigate-to-node' up to its await: the task looks for the node
\* whose id its decision field holds
NavigateToNode(s, msg) ==
    IF Truthy(Get(msg, "nodeId"))
    THEN Spawn(s, Task("navigate", "find", s.live, [id |-> msg["nodeId"]],
                       <<>>))
    ELSE s

\* figma.ui.onmessage = async (msg) => ..., up to its first await
OnMessage(s0, msg, saveOk) ==
    LET s == CheckForDocumentChange(s0)
    IN CASE msg.type = "create-resource" -> CreateResource(s, msg, saveOk)
         [] msg.type = "create-decision" -> CreateDecision(s, msg, saveOk)
         [] msg.type = "edit-decision" -> EditDecision(s, msg, saveOk)
         [] msg.type = "delete-decision" -> DeleteDecision(s, msg, saveOk)
         [] msg.type = "edit-resource" -> EditResource(s, msg, saveOk)
         [] msg.type = "delete-resource" -> DeleteResource(s, msg, saveOk)
         [] msg.type = "get-user-info" -> GetUserInfo(s)
         [] msg.type = "get-document-id" -> GetDocumentId(s)
         [] msg.type = "navigate-to-node" -> NavigateToNode(s, msg)
         [] OTHER -> s

\* figma.ui.on('message', () => { checkForDocumentChange(); })
MessageListener(s) == CheckForDocumentChange(s)

\* figma.on('selectionchange', ...)
OnSelectionChange(s) == SendSelectionInfo(CheckForDocumentChange(s))

(***************************************************************************)
(* Continuations.  A task is what remains of a visual-log operation after  *)
(* an await.  A task with pc "start" waits on a promise that is already    *)
(* settled: it resumes as a microtask, before the host delivers anything   *)
(* else (Drain).  The other tasks wait on a host call (a font load, a page *)
(* switch, a node lookup, a timer) and resume in any order; fontOk tells    *)
(* whether the host call the task waits on succeeds.                       *)
(***************************************************************************)
Without(s, t) == [s EXCEPT !.tasks = @ (-) SetToBag({t})]

Resume(s, t, pc, todo) ==
    Spawn(Without(s, t), [t EXCEPT !.pc = pc, !.todo = todo])

AppendRow(s, t, d) ==
    [s EXCEPT !.rows[t.doc] = Append(@, CreateDecisionRow(d))]

\* a variant of AddStep whose catch block tells the user
AddStepReporting(s, t, fontOk) ==
    CASE t.pc = "page" ->
            IF fontOk
            THEN Resume([s EXCEPT !.page[t.doc] = "ready"], t, "switch", <<>>)
            ELSE Notify(Without(s, t), "Error adding decision to visual log")
      [] t.pc = "switch" ->
            LET s1 == [s EXCEPT !.currentPage[t.doc] = LogPage]
            IN IF s.page[t.doc] = "ready" THEN Resume(s1, t, "row", <<>>)
               ELSE Without(s1, t)
      [] OTHER ->
            IF fontOk /\ ~RowThrows(t.decision)
            THEN Without(AppendRow(s, t, t.decision), t)
            ELSE Notify(Without(s, t), "Error adding decision to visual log")

\* addDecisionToVisualLog after an await
AddStep(s, t, fontOk) ==
    CASE t.pc = "page" ->
            IF fontOk
            THEN Resume([s EXCEPT !.page[t.doc] = "ready"], t, "switch", <<>>)
            ELSE Without(s, t)
      [] t.pc = "switch" ->
            LET s1 == [s EXCEPT !.currentPage[t.doc] = LogPage]
            IN IF s.page[t.doc] = "ready" THEN Resume(s1, t, "row", <<>>)
               ELSE Without(s1, t)
      [] OTHER ->
            IF fontOk /\ ~RowThrows(t.decision)
            THEN Without(AppendRow(s, t, t.decision), t)
            ELSE Without(s, t)

\* a variant of UpdateStep for a handler that saves after the row is drawn
UpdateStepSavingLate(s, t, fontOk) ==
    SaveDecisionsToDocument(
        IF fontOk /\ ~RowThrows(t.decision)
        THEN Without(AppendRow(s, t, t.decision), t)
        ELSE Without(s, t),
        TRUE)

\* updateDecisionInVisualLog after its await
UpdateStep(s, t, fontOk) ==
    IF fontOk /\ ~RowThrows(t.decision)
    THEN Without(AppendRow(s, t, t.decision), t)
    ELSE Without(s, t)

\* initializePlugin after `await rebuildVisualLog()`
FinishInitialize(s) == SendSelectionInfo(s)

\* rebuildVisualLog once the page is there
RebuildRows(s, t) ==
    LET sorted == SortNewestFirst(s.decisions)
        s1 == [s EXCEPT !.rows[t.doc] = <<>>]
    IN IF s.page[t.doc] # "ready" THEN FinishInitialize(Without(s, t))
       ELSE IF sorted = <<>> THEN FinishInitialize(Without(s1, t))
       ELSE Resume(s1, t, "loop", sorted)

\* rebuildVisualLog after an await
RebuildStep(s, t, fontOk) ==
    CASE t.pc = "page" ->
            IF fontOk THEN RebuildRows([s EXCEPT !.page[t.doc] = "ready"], t)
            ELSE FinishInitialize(Without(s, t))
      [] t.pc = "start" -> RebuildRows(s, t)
      [] OTHER ->
            IF fontOk /\ ~RowThrows(Head(t.todo))
            THEN IF Len(t.todo) = 1
                 THEN FinishInitialize(
                          Without(AppendRow(s, t, Head(t.todo)), t))
                 ELSE Resume(AppendRow(s, t, Head(t.todo)), t, "loop",
                             Tail(t.todo))
            ELSE FinishInitialize(Without(s, t))

NotFoundText == "Could not find the linked element"
NoPageText == "Could not find the page containing this element"
NavigatedText(pageName) ==
    "Navigated to linked element on page \"" \o pageName \o "\""

\* a variant of NavigateStep that looks again for a node it did not find
NavigateStepRetrying(s, t, hostOk) ==
    LET nodeId == t.decision.id
        targetPage == PageOfNode(nodeId)
    IN CASE t.pc = "find" ->
               IF ~hostOk \/ ~NodeExists(nodeId)
               THEN Notify(s, NotFoundText)
               ELSE IF targetPage = Undefined
               THEN Notify(Without(s, t), NoPageText)
               ELSE Resume(s, t, "switch", <<>>)
         [] t.pc = "switch" ->
               IF ~hostOk THEN Notify(Without(s, t), NotFoundText)
               ELSE Resume([s EXCEPT !.currentPage[t.doc] = targetPage],
                           t, "timer", <<>>)
         [] OTHER ->
               IF hostOk /\ s.currentPage[t.doc] = targetPage
               THEN Notify([Without(s, t) EXCEPT
                               !.selection[t.doc] = <<nodeId>>,
                               !.viewport[t.doc] = nodeId],
                           NavigatedText(targetPage))
               ELSE Without(s, t)

\* case 'navigate-to-node' after an await, and its timer callback.  In the
\* callback the node is selected on the current page; when that is not the
\* node's page, or the host refuses, the assignment throws and the callback
\* ends there.
NavigateStep(s, t, hostOk) ==
    LET nodeId == t.decision.id
        targetPage == PageOfNode(nodeId)
    IN CASE t.pc = "find" ->
               IF ~hostOk \/ ~NodeExists(nodeId)
               THEN Notify(Without(s, t), NotFoundText)
               ELSE IF targetPage = Undefined
               THEN Notify(Without(s, t), NoPageText)
               ELSE Resume(s, t, "switch", <<>>)
         [] t.pc = "switch" ->
               IF ~hostOk THEN Notify(Without(s, t), NotFoundText)
               ELSE Resume([s EXCEPT !.currentPage[t.doc] = targetPage],
                           t, "timer", <<>>)
         [] OTHER ->
               IF hostOk /\ s.currentPage[t.doc] = targetPage
               THEN Notify([Without(s, t) EXCEPT
                               !.selection[t.doc] = <<nodeId>>,
                               !.viewport[t.doc] = nodeId],
                           NavigatedText(targetPage))
               ELSE Without(s, t)

Step(s, t, fontOk) ==
    CASE t.kind = "add" -> AddStep(s, t, fontOk)
      [] t.kind = "update" -> UpdateStep(s, t, fontOk)
      [] t.kind = "navigate" -> NavigateStep(s, t, fontOk)
      [] OTHER -> RebuildStep(s, t, fontOk)

RECURSIVE Drain(_)
\* the microtasks that follow a callback: every task at "start" resumes
Drain(s) ==
    IF \E t \in BagToSet(s.tasks) : t.pc = "start"
    THEN Drain(RebuildStep(s, CHOOSE t \in BagToSet(s.tasks) : t.pc = "start",
                           TRUE))
    ELSE s

(***************************************************************************)
(* What the environment offers.  A run is of one kind, fixed at the start: *)
(* the kind says in which document the plugin is opened, whether the host  *)
(* switches documents, which commands the UI sends, whether a save or a    *)
(* font load may fail, which decisions the user drafts, who the user is,   *)
(* whether the documents have a visual log ("canvas") or hold a page       *)
(* named 'Design Decisions' that has no 'Decision Log' frame, so that no   *)
(* row is ever drawn, whether the blobs found in the documents are the     *)
(* ones an earlier session saved or are partly garbled, whether the edits  *)
(* the UI sends always carry a status, and whether the user changes the    *)
(* selection.                                                              *)
(***************************************************************************)
DecisionTypes == {"create-decision", "edit-decision", "delete-decision"}
ResourceTypes == {"create-resource", "edit-resource", "delete-resource"}
QueryTypes == {"get-user-info", "get-document-id"}
NavigateTypes == {"navigate-to-node"}

DecisionsRun ==
    [name |-> "decisions", ticking |-> FALSE, start |-> "fileB",
     switching |-> FALSE, saveFaults |-> TRUE, fontFaults |-> FALSE,
     canvas |-> FALSE, types |-> DecisionTypes, drafts |-> {"A", "B"},
     user |-> "alice", blobs |-> "saved",
     edits |-> "full", selecting |-> FALSE]
ClockRun ==
    [name |-> "clock", ticking |-> TRUE, start |-> "fileB",
     switching |-> FALSE, saveFaults |-> FALSE, fontFaults |-> FALSE,
     canvas |-> FALSE, types |-> DecisionTypes, drafts |-> {"A"},
     user |-> "alice", blobs |-> "saved",
     edits |-> "full", selecting |-> FALSE]
ResourcesRun ==
    [name |-> "resources", ticking |-> TRUE, start |-> "fileB",
     switching |-> FALSE, saveFaults |-> TRUE, fontFaults |-> FALSE,
     canvas |-> FALSE, types |-> ResourceTypes, drafts |-> {},
     user |-> "alice", blobs |-> "saved",
     edits |-> "full", selecting |-> FALSE]
SwitchRun ==
    [name |-> "switch", ticking |-> FALSE, start |-> "fileA",
     switching |-> TRUE, saveFaults |-> FALSE, fontFaults |-> FALSE,
     canvas |-> FALSE,
     types |-> {"create-decision", "create-resource"} \cup QueryTypes,
     drafts |-> {"A"}, user |-> "alice", blobs |-> "saved",
     edits |-> "full", selecting |-> FALSE]
CanvasRun ==
    [name |-> "canvas", ticking |-> FALSE, start |-> "fileA",
     switching |-> FALSE, saveFaults |-> FALSE, fontFaults |-> FALSE,
     canvas |-> TRUE, types |-> {"create-decision", "edit-decision"},
     drafts |-> {"A"}, user |-> NoUser, blobs |-> "saved",
     edits |-> "full", selecting |-> FALSE]
CanvasDeleteRun ==
    [name |-> "canvas-delete", ticking |-> FALSE, start |-> "fileA",
     switching |-> FALSE, saveFaults |-> FALSE, fontFaults |-> FALSE,
     canvas |-> TRUE, types |-> {"create-decision", "delete-decision"},
     drafts |-> {"A"}, user |-> NoUser, blobs |-> "saved",
     edits |-> "full", selecting |-> FALSE]

\* runs in which a user without a name drafts decisions of both kinds, the
\* UI asks to navigate (and the host calls may fail), the blobs are
\* garbled, the font loads may fail, the decisions drafted lack a rationale
GuestRun ==
    [name |-> "guest", ticking |-> FALSE, start |-> "fileA",
     switching |-> FALSE, saveFaults |-> TRUE, fontFaults |-> FALSE,
     canvas |-> FALSE, types |-> {"create-decision"}, drafts |-> {"A", "B"},
     user |-> NoUser, blobs |-> "saved",
     edits |-> "full", selecting |-> FALSE]
NavigateRun ==
    [name |-> "navigate", ticking |-> TRUE, start |-> "fileA",
     switching |-> FALSE, saveFaults |-> FALSE, fontFaults |-> TRUE,
     canvas |-> FALSE, types |-> NavigateTypes \cup {"get-user-info"},
     drafts |-> {}, user |-> "alice", blobs |-> "saved",
     edits |-> "full", selecting |-> FALSE]
GarbledRun ==
    [name |-> "garbled", ticking |-> FALSE, start |-> "fileA",
     switching |-> TRUE, saveFaults |-> FALSE, fontFaults |-> FALSE,
     canvas |-> FALSE, types |-> {"create-decision", "create-resource"},
     drafts |-> {"A"}, user |-> "alice", blobs |-> "garbled",
     edits |-> "full", selecting |-> FALSE]
FontFaultRun ==
    [name |-> "font-fault", ticking |-> FALSE, start |-> "fileA",
     switching |-> FALSE, saveFaults |-> FALSE, fontFaults |-> TRUE,
     canvas |-> TRUE, types |-> {"create-decision", "edit-decision"},
     drafts |-> {"A"}, user |-> "alice", blobs |-> "saved",
     edits |-> "full", selecting |-> FALSE]
BrokenRowRun ==
    [name |-> "broken-row", ticking |-> FALSE, start |-> "fileA",
     switching |-> FALSE, saveFaults |-> FALSE, fontFaults |-> FALSE,
     canvas |-> TRUE, types |-> {"create-decision", "edit-decision"},
     drafts |-> {"C"}, user |-> "alice", blobs |-> "saved",
     edits |-> "full", selecting |-> FALSE]

\* runs in a document that has a visual log with the row of the old
\* decision, titled 'A': the user drafts a second decision of that title
\* and edits, which gives a decision the title 'B', or deletes
RenameRun ==
    [name |-> "rename", ticking |-> FALSE, start |-> "fileB",
     switching |-> FALSE, saveFaults |-> FALSE, fontFaults |-> FALSE,
     canvas |-> TRUE, types |-> {"create-decision", "edit-decision"},
     drafts |-> {"A"}, user |-> "alice", blobs |-> "saved",
     edits |-> "full", selecting |-> FALSE]
SameTitleRun ==
    [name |-> "same-title", ticking |-> FALSE, start |-> "fileB",
     switching |-> FALSE, saveFaults |-> FALSE, fontFaults |-> FALSE,
     canvas |-> TRUE, types |-> {"create-decision", "delete-decision"},
     drafts |-> {"A"}, user |-> "alice", blobs |-> "saved",
     edits |-> "full", selecting |-> FALSE]

\* a run in which the edits the UI sends come in two shapes: with a status
\* and without one
StatusRun ==
    [name |-> "status", ticking |-> FALSE, start |-> "fileB",
     switching |-> FALSE, saveFaults |-> FALSE, fontFaults |-> FALSE,
     canvas |-> FALSE, types |-> {"create-decision", "edit-decision"},
     drafts |-> {"A"}, user |-> "alice", blobs |-> "saved",
     edits |-> "either", selecting |-> FALSE]
Runs ==
    {DecisionsRun, ClockRun, ResourcesRun, SwitchRun, CanvasRun,
     CanvasDeleteRun, StatusRun}

\* a run in which the UI asks to navigate and creates decisions, in a new
\* document
NavigateCreateRun ==
    [name |-> "navigate-create", ticking |-> FALSE, start |-> "fileA",
     switching |-> FALSE, saveFaults |-> FALSE, fontFaults |-> FALSE,
     canvas |-> TRUE, types |-> NavigateTypes \cup {"create-decision"},
     drafts |-> {"A"}, user |-> "alice", blobs |-> "saved",
     edits |-> "full", selecting |-> FALSE]

\* a run in which the UI creates decisions and resources, in a document
\* that has the visual log
MixedRun ==
    [name |-> "mixed", ticking |-> FALSE, start |-> "fileB",
     switching |-> FALSE, saveFaults |-> FALSE, fontFaults |-> FALSE,
     canvas |-> TRUE, types |-> {"create-decision", "create-resource"},
     drafts |-> {"A"}, user |-> "alice", blobs |-> "saved",
     edits |-> "full", selecting |-> FALSE]

\* a run in which the user selects elements of the page shown and the UI
\* asks to navigate
SelectRun ==
    [name |-> "select", ticking |-> FALSE, start |-> "fileA",
     switching |-> FALSE, saveFaults |-> FALSE, fontFaults |-> FALSE,
     canvas |-> TRUE, types |-> NavigateTypes, drafts |-> {},
     user |-> "alice", blobs |-> "saved", edits |-> "full",
     selecting |-> TRUE]
CommandRuns ==
    {ClockRun, ResourcesRun, SwitchRun, GuestRun, NavigateRun, SelectRun}
MirrorRuns ==
    {RenameRun, SameTitleRun, SwitchRun, NavigateRun, NavigateCreateRun,
     MixedRun}
FaultRuns == {GarbledRun, FontFaultRun, BrokenRowRun, NavigateRun}

\* the ids the UI may name: those of the records a run can hold, and one
\* more
IdPool(e) ==
    {NumToString(n) : n \in 0..(IF e.ticking THEN MaxClock ELSE 1)}

DecisionDrafts ==
    {[title |-> "A", rationale |-> "why", context |-> "where"],
     [title |-> "B", rationale |-> "why", context |-> "where",
      links |-> <<[title |-> "doc", url |-> "https://x"]>>,
      pros |-> <<"fast">>, cons |-> <<"cost">>, tags |-> <<"ux", "web">>,
      nodeId |-> "1:2", nodeName |-> "Button", pageName |-> "Page 1",
      status |-> "accepted"],
     [title |-> "C", context |-> "where"]}

\* the record an edit-decision carries, for the id it names
DecisionEdit(id) ==
    [id |-> id, title |-> "B", rationale |-> "why", context |-> "where",
     author |-> "mallory", status |-> "rejected", timestamp |-> 0]

\* the same record without a status
DecisionEditWithoutStatus(id) ==
    [k \in (DOMAIN DecisionEdit(id)) \ {"status"} |-> DecisionEdit(id)[k]]

ResourceDrafts ==
    {[title |-> "R", description |-> "d", url |-> "https://r",
      category |-> "c"]}

ResourceEdit(id) ==
    [id |-> id, title |-> "S", description |-> "d", url |-> "https://r",
     category |-> "c", author |-> "mallory"]

DecisionMessages(e) ==
    {d @@ [type |-> "create-decision"] :
        d \in {x \in DecisionDrafts : x.title \in e.drafts}}
    \cup {[type |-> "edit-decision", decision |-> DecisionEdit(id)] :
             id \in IdPool(e)}
    \cup {[type |-> "edit-decision",
            decision |-> DecisionEditWithoutStatus(id)] :
             id \in IF e.edits = "either" THEN IdPool(e) ELSE {}}
    \cup {[type |-> "delete-decision", id |-> id] : id \in IdPool(e)}

ResourceMessages(e) ==
    {d @@ [type |-> "create-resource"] : d \in ResourceDrafts}
    \cup {[type |-> "edit-resource", resource |-> ResourceEdit(id)] :
             id \in IdPool(e)}
    \cup {[type |-> "delete-resource", id |-> id] : id \in IdPool(e)}

QueryMessages == {[type |-> "get-user-info"], [type |-> "get-document-id"]}

\* the node ids a navigate-to-node names: a scene node, a page, a node that
\* is not in the document, and none
NavigateMessages ==
    {[type |-> "navigate-to-node", nodeId |-> id, pageName |-> HomePage] :
        id \in {"1:2", "0:1", "9:9", ""}}

\* the messages the UI sends in a run
Messages(e) ==
    {m \in DecisionMessages(e) \cup ResourceMessages(e) \cup QueryMessages
            \cup NavigateMessages :
        m.type \in e.types}

\* what a save call may return, for a message that saves
SaveOutcomes(e, msg) ==
    IF e.saveFaults /\ msg.type \notin QueryTypes \cup NavigateTypes
    THEN BOOLEAN ELSE {TRUE}
FontOutcomes(e) == IF e.fontFaults THEN BOOLEAN ELSE {TRUE}

\* the states the bounds keep
Bounded(s) ==
    /\ Len(s.decisions) <= MaxLen
    /\ Len(s.resources) <= MaxLen
    /\ BagCardinality(s.tasks) <= MaxTasks

(***************************************************************************)
(* The documents at the start: fileA is new, fileB was used in an earlier  *)
(* session by another user.                                                *)
(***************************************************************************)
OldDecision ==
    [id |-> "0", title |-> "A", rationale |-> "why", context |-> "where",
     timestamp |-> 0, author |-> "bob", links |-> <<>>, pros |-> <<>>,
     cons |-> <<>>, tags |-> <<>>, status |-> "accepted"]

OldResource ==
    [id |-> "0", title |-> "R", description |-> "d", url |-> "https://r",
     category |-> "c", timestamp |-> 0, author |-> "bob", tags |-> <<>>]

\* with garbled blobs, the decisions of fileA and the resources of fileB
\* do not parse
InitialStored(e) ==
    [d \in Docs |->
        IF e.blobs = "garbled"
        THEN (DECISIONS_KEY :> IF d = "fileA" THEN GarbageBlob
                               ELSE JSONstringify(<<OldDecision>>))
             @@ (RESOURCES_KEY :> IF d = "fileA"
                                  THEN JSONstringify(<<OldResource>>)
                                  ELSE GarbageBlob)
        ELSE IF d = "fileA"
        THEN (DECISIONS_KEY :> EmptyBlob) @@ (RESOURCES_KEY :> EmptyBlob)
        ELSE (DECISIONS_KEY :> JSONstringify(<<OldDecision>>))
             @@ (RESOURCES_KEY :> JSONstringify(<<OldResource>>))]

InitialPage(e) ==
    [d \in Docs |-> IF ~e.canvas THEN "bare"
                    ELSE IF d = "fileA" THEN "none" ELSE "ready"]

InitialRows(e) ==
    [d \in Docs |-> IF ~e.canvas \/ d = "fileA" THEN <<>>
                    ELSE <<CreateDecisionRow(OldDecision)>>]

\* the page the user is on: the first page, or the page named 'Design
\* Decisions' where a document has one from the start
InitialCurrentPage(e) ==
    [d \in Docs |-> IF InitialPage(e)[d] = "none" \/ e.canvas THEN HomePage
                    ELSE LogPage]

\* the module's top-level statements, with the plugin opened in document d
Started(d, e) ==
    Drain(InitializePlugin(
        [live |-> d, stored |-> InitialStored(e), page |-> InitialPage(e),
         rows |-> InitialRows(e), decisions |-> <<>>, resources |-> <<>>,
         cur |-> DocumentId(d), user |-> e.user, now |-> 1,
         tasks |-> EmptyBag, fx |-> <<>>, ok |-> TRUE,
         currentPage |-> InitialCurrentPage(e),
         selection |-> [x \in Docs |-> <<>>],
         viewport |-> [x \in Docs |-> "origin"]]))

\* a run of one of the kinds given starts
StartsAs(kinds) ==
    \E e \in kinds :
        \E s \in {Started(e.start, e)} :
           /\ liveDoc = s.live
           /\ stored = s.stored
           /\ page = s.page
           /\ rows = s.rows
           /\ decisions = s.decisions
           /\ resources = s.resources
           /\ currentDocumentId = s.cur
           /\ user = s.user
           /\ now = s.now
           /\ tasks = s.tasks
           /\ savesOk = s.ok
           /\ currentPage = s.currentPage
           /\ selection = s.selection
           /\ viewport = s.viewport
           /\ env = e

Init == StartsAs(Runs)
CommandInit == StartsAs(CommandRuns)
FaultInit == StartsAs(FaultRuns)
MirrorInit == StartsAs(MirrorRuns)

(***************************************************************************)
(* Actions.                                                                *)
(***************************************************************************)
\* A message from the UI reaches the listener and the handler.  The source
\* does not fix their order: each is a step of its own, followed by its
\* microtasks.
UiMessage ==
    \E msg \in Messages(env) :
      \E saveOk \in SaveOutcomes(env, msg) :
        \E s \in {Drain(OnMessage(Here, msg, saveOk))} :
            Bounded(s) /\ Becomes(s)

UiListener ==
    \E s \in {Drain(MessageListener(Here))} :
        Bounded(s) /\ Becomes(s)

\* the selection the user may make in a run: some elements of the page
\* shown, in the order picked; in the runs that do not follow the user's
\* selection, the event arrives with the selection as it is
UserSelections(s, e) ==
    LET nodes == IF s.currentPage[s.live] = HomePage THEN {"1:2", "1:3"}
                 ELSE {}
    IN IF e.selecting
       THEN {<<>>} \cup {<<n>> : n \in nodes}
               \cup {p \in nodes \X nodes : p[1] # p[2]}
       ELSE {s.selection[s.live]}

SelectionChange ==
    \E sel \in UserSelections(Here, env) :
      \E s \in {Drain(OnSelectionChange(
                          [Here EXCEPT !.selection[liveDoc] = sel]))} :
        Bounded(s) /\ Becomes(s)

TaskStep ==
    \E t \in BagToSet(tasks), fontOk \in FontOutcomes(env) :
        \E s \in {Step(Here, t, fontOk)} : Becomes(s)

\* the host shows another document; it does so while the plugin is idle
SwitchDocument ==
    \E d \in Docs \ {liveDoc} :
        /\ env.switching
        /\ tasks = EmptyBag
        /\ liveDoc' = d
        /\ UNCHANGED <<stored, page, rows, decisions, resources,
                       currentDocumentId, user, now, tasks, savesOk,
                       currentPage, selection, viewport, env>>

\* a millisecond passes
Tick ==
    /\ env.ticking
    /\ now < MaxClock
    /\ now' = now + 1
    /\ UNCHANGED <<liveDoc, stored, page, rows, decisions, resources,
                   currentDocumentId, user, tasks, savesOk, currentPage,
                   selection, viewport, env>>

Next == UiMessage \/ UiListener \/ SelectionChange \/ TaskStep \/ SwitchDocument \/ Tick

Spec == Init /\ [][Next]_vars

\* the same program in the runs of CommandRuns, in those of FaultRuns and
\* in those of MirrorRuns
CommandSpec == CommandInit /\ [][Next]_vars
FaultSpec == FaultInit /\ [][Next]_vars
MirrorSpec == MirrorInit /\ [][Next]_vars

(***************************************************************************)
(* Vocabulary of the properties.                                           *)
(*                                                                         *)
(* A property about one command is stated on the state record the handler  *)
(* returns for that command from the current state: its collections, what  *)
(* it stored and the host calls it made (fx), in order.  Seen is the state *)
(* the switch statement of the handler starts from, after the              *)
(* document-change check that opens the handler.                           *)
(***************************************************************************)
\* two records read alike: an absent key and a key holding undefined are
\* both read as undefined
SameRecord(a, b) ==
    /\ {k \in DOMAIN a : HasVal(a, k)} = {k \in DOMAIN b : HasVal(b, k)}
    /\ \A k \in DOMAIN a : HasVal(a, k) => a[k] = b[k]

\* the same records in the same order
SameList(x, y) ==
    /\ Len(x) = Len(y)
    /\ \A i \in 1..Len(x) : SameRecord(x[i], y[i])

\* the collection that a blob decodes to; nothing saved decodes to no record
Decoded(blob) ==
    IF BlobTruthy(blob) /\ ~ParseThrows(blob) THEN JSONparse(blob) ELSE <<>>

\* the document whose id the plugin holds
DocOf(id) == CHOOSE d \in Docs : DocumentId(d) = id

KeyOf(type) ==
    IF type \in DecisionTypes THEN DECISIONS_KEY ELSE RESOURCES_KEY

CollectionOf(s, key) ==
    IF key = DECISIONS_KEY THEN s.decisions ELSE s.resources

Ids(list) == {Get(list[i], "id") : i \in 1..Len(list)}

CreateTypes == {"create-decision", "create-resource"}
EditTypes == {"edit-decision", "edit-resource"}
DeleteTypes == {"delete-decision", "delete-resource"}

\* the id an edit or a delete names
NamedId(msg) ==
    CASE msg.type = "edit-decision" -> Get(msg.decision, "id")
      [] msg.type = "edit-resource" -> Get(msg.resource, "id")
      [] OTHER -> msg.id

\* the record an edit carries
Incoming(msg) ==
    IF msg.type = "edit-decision" THEN msg.decision ELSE msg.resource

\* the event that reports the success of a command
SuccessType(type) ==
    CASE type = "create-decision" -> "decision-created"
      [] type = "edit-decision" -> "decision-updated"
      [] type = "delete-decision" -> "decision-deleted"
      [] type = "create-resource" -> "resource-created"
      [] type = "edit-resource" -> "resource-updated"
      [] OTHER -> "resource-deleted"

ErrorTexts ==
    {"Error saving decision", "Error updating decision",
     "Error deleting decision", "Error saving resource",
     "Error updating resource", "Error deleting resource",
     "Error loading saved data"}

\* positions in s.fx of the events of a type, of the notifications, of the
\* error notifications and of the save calls on a key
Posts(s, type) ==
    {i \in 1..Len(s.fx) : s.fx[i].api = "postMessage" /\ s.fx[i].type = type}
Notes(s) == {i \in 1..Len(s.fx) : s.fx[i].api = "notify"}
Errors(s) == {i \in Notes(s) : s.fx[i].text \in ErrorTexts}
Saves(s, key) ==
    {i \in 1..Len(s.fx) :
        s.fx[i].api = "setSharedPluginData" /\ s.fx[i].key = key}

\* the commands of this run that change a collection, each with what its
\* save call returns
Commands ==
    {c \in Messages(env) \X BOOLEAN :
        /\ c[1].type \notin QueryTypes \cup NavigateTypes
        /\ c[2] \in SaveOutcomes(env, c[1])}

CommandsOf(types) == {c \in Commands : c[1].type \in types}

\* the state the switch statement of the handler starts from
Seen == CheckForDocumentChange(Here)

\* the state, with the host calls made, that the handler ends with
Handled(c) == OnMessage(Here, c[1], c[2])

\* how often x occurs in a sequence
Count(seq, x) == Cardinality({i \in 1..Len(seq) : seq[i] = x})

\* the plugin closed and run again in the document shown: the module's
\* globals are fresh and initializePlugin() loads
Restarted(s) ==
    InitializePlugin([s EXCEPT !.decisions = <<>>, !.resources = <<>>,
                               !.cur = DocumentId(s.live),
                               !.tasks = EmptyBag, !.fx = <<>>])

\* a reload in the running plugin, by the document-change check
Reloaded(s) == CheckForDocumentChange([s EXCEPT !.fx = <<>>])

\* the load event of a collection and the list it carries
LoadType(key) ==
    IF key = DECISIONS_KEY THEN "load-decisions" ELSE "load-resources"
Carried(event) ==
    IF event.type = "load-decisions" THEN event.decisions ELSE event.resources

C2_EditKeepsIdAndAuthor ==
    \A c \in CommandsOf(EditTypes) :
        LET key == KeyOf(c[1].type)
            old == CollectionOf(Seen, key)
            new == CollectionOf(Handled(c), key)
        IN NamedId(c[1]) \in Ids(old) =>
              /\ Len(new) = Len(old)
              /\ \A i \in 1..Len(old) :
                    /\ Get(new[i], "id") = Get(old[i], "id")
                    /\ Get(new[i], "author") = Get(old[i], "author")

\* C2, a case: the old decision has been edited by another user; it has the
\* title and the status of the incoming record, its own id and author
C2_Witness ==
    \E i \in 1..Len(decisions) :
        /\ Get(decisions[i], "id") = "0"
        /\ Get(decisions[i], "title") = "B"
        /\ Get(decisions[i], "status") = "rejected"
        /\ Get(decisions[i], "author") = "bob"
        /\ user = "alice"

\* C3: a create assigns an id that no record of the collection has.
C3_CreateAssignsFreshId ==
    \A c \in CommandsOf(CreateTypes) :
        LET key == KeyOf(c[1].type)
            old == CollectionOf(Seen, key)
            new == CollectionOf(Handled(c), key)
        IN Get(new[Len(new)], "id") \notin Ids(old)

C5_SaveThenAcknowledge ==
    \A c \in Commands :
        LET s == Handled(c)
            key == KeyOf(c[1].type)
            acks == Posts(s, SuccessType(c[1].type))
        IN /\ \A i \in acks :
                 \E j \in Saves(s, key) : j < i /\ s.fx[j].ok
           /\ acks # {} =>
                 SameList(CollectionOf(s, key),
                          Decoded(s.stored[s.live][key]))
           /\ \A j \in Saves(s, key) :
                 ~s.fx[j].ok =>
                    /\ acks = {}
                    /\ \E i \in Errors(s) : j < i

\* C5, a case: a save call has failed and memory holds what the blob lacks
C5_Witness ==
    /\ ~savesOk
    /\ Len(decisions) > Len(Decoded(stored[liveDoc][DECISIONS_KEY]))

\* C6: with no visual-log operation pending and the log page in place, the
\* log holds one row per decision in memory, and no other row.
C6_MirrorMatchesDecisions ==
    (tasks = EmptyBag /\ page[liveDoc] = "ready") =>
        LET names == [i \in 1..Len(rows[liveDoc]) |-> rows[liveDoc][i].name]
            wanted == [i \in 1..Len(decisions) |->
                          RowName(Get(decisions[i], "title"))]
        IN \A n \in {names[i] : i \in 1..Len(names)}
                    \cup {wanted[i] : i \in 1..Len(wanted)} :
              Count(names, n) = Count(wanted, n)

\* C7: an edit that names an id no record has, in memory or in storage,
\* leaves the in-memory collection as it was and stores nothing.
C7_EditOfMissingIdChangesNothing ==
    \A c \in CommandsOf(EditTypes) :
        LET s == Handled(c)
            key == KeyOf(c[1].type)
        IN (/\ currentDocumentId = DocumentId(liveDoc)
            /\ NamedId(c[1]) \notin Ids(CollectionOf(Here, key))
            /\ NamedId(c[1]) \notin Ids(Decoded(stored[liveDoc][key])))
           => /\ CollectionOf(s, key) = CollectionOf(Here, key)
              /\ s.stored = stored
              /\ Saves(s, key) = {}

\* C8: a delete that names an id no record has, in memory or in storage,
\* leaves the in-memory collection as it was.
C8_DeleteOfMissingIdKeepsMemory ==
    \A c \in CommandsOf(DeleteTypes) :
        LET s == Handled(c)
            key == KeyOf(c[1].type)
        IN (/\ currentDocumentId = DocumentId(liveDoc)
            /\ NamedId(c[1]) \notin Ids(CollectionOf(Here, key))
            /\ NamedId(c[1]) \notin Ids(Decoded(stored[liveDoc][key])))
           => CollectionOf(s, key) = CollectionOf(Here, key)

\* C9, as stated: an edit or a delete that names an id the collection does
\* not hold, and whose save call succeeds, emits its success event and no
\* error notification.
C9_MissingIdReportsSuccess ==
    \A c \in CommandsOf(EditTypes \cup DeleteTypes) :
        LET s == Handled(c)
            key == KeyOf(c[1].type)
        IN (c[2] /\ NamedId(c[1]) \notin Ids(CollectionOf(Seen, key)))
           => /\ Posts(s, SuccessType(c[1].type)) # {}
              /\ Errors(s) = {}

\* C9, amended: for an id the collection does not hold, an edit saves
\* nothing, emits no success event and no notification; a delete saves the
\* collection and then emits its success event and a success notification,
\* and no error, when the save call succeeds, and an error notification and
\* no success event when it fails.
C9_MissingIdOutcome ==
    \A c \in CommandsOf(EditTypes \cup DeleteTypes) :
        LET s == Handled(c)
            seen == Seen
            key == KeyOf(c[1].type)
            acks == Posts(s, SuccessType(c[1].type))
        IN NamedId(c[1]) \notin Ids(CollectionOf(seen, key))
           => IF c[1].type \in EditTypes
              THEN acks = {} /\ Notes(s) = {} /\ Saves(s, key) = {}
              ELSE /\ Saves(s, key) # {}
                   /\ CollectionOf(s, key) = CollectionOf(seen, key)
                   /\ IF c[2]
                      THEN acks # {} /\ Errors(s) = {} /\ Notes(s) # {}
                      ELSE acks = {} /\ Errors(s) # {}

\* C9, a case: the old resource has been deleted, in memory and in the
\* blob, and a second delete of its id would be reported as a success
C9_Witness ==
    /\ env.start = "fileB"
    /\ resources = <<>>
    /\ Decoded(stored[liveDoc][RESOURCES_KEY]) = <<>>
    /\ \E c \in CommandsOf({"delete-resource"}) :
          /\ c[1].id = "0"
          /\ Posts(Handled(c), "resource-deleted") # {}

\* C10, as stated: after a delete of a decision that exists, no record in
\* memory and no record of the persisted blob has its id.
C10_DeletedIdIsGone ==
    \A c \in CommandsOf({"delete-decision"}) :
        LET s == Handled(c)
        IN c[1].id \in Ids(Seen.decisions)
           => /\ c[1].id \notin Ids(s.decisions)
              /\ c[1].id \notin
                    Ids(Decoded(s.stored[s.live][DECISIONS_KEY]))

\* C10, amended: after a delete of a decision that exists, no record in
\* memory has its id; when the save call succeeds no record of the
\* persisted blob has it either, and when the save call fails the blob is
\* the one persisted before.
C10_DeletedIdIsGoneWhenSaved ==
    \A c \in CommandsOf({"delete-decision"}) :
        LET s == Handled(c)
        IN c[1].id \in Ids(Seen.decisions)
           => /\ c[1].id \notin Ids(s.decisions)
              /\ IF c[2]
                 THEN c[1].id \notin
                         Ids(Decoded(s.stored[s.live][DECISIONS_KEY]))
                 ELSE s.stored = stored

\* C10, a case: the old decision is gone from memory and from the blob,
\* which still holds another decision
C10_Witness ==
    /\ env.start = "fileB"
    /\ "0" \notin Ids(decisions)
    /\ "0" \notin Ids(Decoded(stored[liveDoc][DECISIONS_KEY]))
    /\ Len(Decoded(stored[liveDoc][DECISIONS_KEY])) > 0
    /\ decisions = Decoded(stored[liveDoc][DECISIONS_KEY])

\* C11: when a command has saved its collection with success, a load that
\* follows with nothing in between, by a restart of the plugin or by a
\* reload, leaves in memory a collection that reads the same as the one
\* saved, record by record and in the same order, and reports that list to
\* the UI.  (It holds in the runs whose blobs all parse.)
C11_SaveThenLoadRoundTrip ==
    \A c \in Commands :
        LET s == Handled(c)
            key == KeyOf(c[1].type)
            saved == CollectionOf(s, key)
        IN (c[2] /\ Saves(s, key) # {}) =>
              \A loaded \in {Restarted(s), Reloaded(s)} :
                 /\ SameList(CollectionOf(loaded, key), saved)
                 /\ \E i \in Posts(loaded, LoadType(key)) :
                       SameList(Carried(loaded.fx[i]), saved)

\* C12: a create-decision whose save call succeeds emits one
\* decision-created event; the record it carries, which is the record
\* appended in memory, has a non-empty id, the name of the current user as
\* author ("Unknown" when there is no user), the status of the command
\* ("proposed" when the command has none), the links, pros, cons and tags
\* of the command (the empty sequence for each that the command leaves
\* out), and the other fields as the command gives them.
C12_CreatedDecisionDefaults ==
    \A c \in CommandsOf({"create-decision"}) :
        LET s == Handled(c)
            msg == c[1]
            events == Posts(s, "decision-created")
        IN /\ c[2] => Cardinality(events) = 1
           /\ \A i \in events :
                 LET d == s.fx[i].decision
                 IN /\ d = s.decisions[Len(s.decisions)]
                    /\ Truthy(Get(d, "id"))
                    /\ Get(d, "author") =
                          (IF user = NoUser THEN "Unknown" ELSE user)
                    /\ Get(d, "status") =
                          (IF "status" \in DOMAIN msg THEN msg["status"]
                           ELSE "proposed")
                    /\ \A k \in {"links", "pros", "cons", "tags"} :
                          d[k] = (IF k \in DOMAIN msg THEN msg[k] ELSE <<>>)
                    /\ \A k \in {"title", "rationale", "context", "nodeId",
                                  "nodeName", "pageName"} :
                          Get(d, k) = Get(msg, k)

\* C12, a case: with no current user, a decision drafted without optional
\* fields and one drafted with all of them are in memory
C12_Witness ==
    /\ user = NoUser
    /\ \E i \in 1..Len(decisions) :
          /\ Get(decisions[i], "author") = "Unknown"
          /\ Get(decisions[i], "status") = "proposed"
          /\ decisions[i]["links"] = <<>>
          /\ decisions[i]["tags"] = <<>>
          /\ ~HasVal(decisions[i], "nodeId")
    /\ \E i \in 1..Len(decisions) :
          /\ Get(decisions[i], "author") = "Unknown"
          /\ Get(decisions[i], "status") = "accepted"
          /\ decisions[i]["tags"] = <<"ux", "web">>
          /\ Get(decisions[i], "nodeId") = "1:2"

\* C13: an edit that names an id the collection holds puts in the place of
\* the (first) record with that id a record that has exactly the fields of
\* the incoming record, with the incoming values, and besides them the
\* author of the record replaced and the time of the edit as timestamp: a
\* field the incoming record leaves out is absent afterwards.
C13_EditReplacesInFull ==
    \A c \in CommandsOf(EditTypes) :
        LET key == KeyOf(c[1].type)
            old == CollectionOf(Seen, key)
            new == CollectionOf(Handled(c), key)
            incoming == Incoming(c[1])
            i == FindIndex(old, NamedId(c[1]))
        IN i # 0 =>
              /\ DOMAIN new[i] = (DOMAIN incoming) \cup {"timestamp", "author"}
              /\ \A k \in (DOMAIN incoming) \ {"timestamp", "author"} :
                    new[i][k] = incoming[k]
              /\ new[i]["author"] = Get(old[i], "author")
              /\ new[i]["timestamp"] = now

\* C13, a case: the old decision, which had links and tags, was edited at
\* time 2 by an incoming record without them that carried timestamp 0
C13_Witness ==
    \E i \in 1..Len(decisions) :
        /\ Get(decisions[i], "id") = "0"
        /\ Get(decisions[i], "title") = "B"
        /\ Get(decisions[i], "author") = "bob"
        /\ decisions[i]["timestamp"] = 2
        /\ "links" \notin DOMAIN decisions[i]
        /\ "tags" \notin DOMAIN decisions[i]

\* the time at which the record with an id was created: ids are written
\* from the clock
CreatedAt(id) == CHOOSE n \in 0..MaxClock : NumToString(n) = id

\* C14: the records in memory are in the order in which they were created
\* (the order of the times their ids are written from); a create puts the
\* new record after all the others, an edit leaves every record at its
\* position, and a delete leaves the other records in the order they had.
C14_CreationOrderKept ==
    /\ \A key \in {DECISIONS_KEY, RESOURCES_KEY} :
          LET list == CollectionOf(Here, key)
          IN \A i, j \in 1..Len(list) :
                i < j => CreatedAt(Get(list[i], "id"))
                            <= CreatedAt(Get(list[j], "id"))
    /\ \A c \in Commands :
          LET key == KeyOf(c[1].type)
              old == CollectionOf(Seen, key)
              new == CollectionOf(Handled(c), key)
          IN CASE c[1].type \in CreateTypes ->
                    /\ Len(new) = Len(old) + 1
                    /\ \A i \in 1..Len(old) : new[i] = old[i]
               [] c[1].type \in EditTypes ->
                    /\ Len(new) = Len(old)
                    /\ \A i \in 1..Len(old) :
                          \/ new[i] = old[i]
                          \/ /\ i = FindIndex(old, NamedId(c[1]))
                             /\ Get(new[i], "id") = Get(old[i], "id")
               [] OTHER ->
                    new = SelectSeq(old, LAMBDA r : Get(r, "id") # c[1].id)

\* C14, a case: of two decisions the first was edited after the second
\* was created; it has the later timestamp and is still the first
C14_Witness ==
    /\ Len(decisions) = 2
    /\ Get(decisions[1], "id") = "0"
    /\ Get(decisions[2], "id") = "1"
    /\ Get(decisions[1], "title") = "B"
    /\ decisions[1]["timestamp"] > decisions[2]["timestamp"]

\* the host calls in which a handler answers its message: the save calls
\* and the events other than those of a load and selection-info
Answers(s) ==
    {i \in 1..Len(s.fx) :
        \/ s.fx[i].api = "setSharedPluginData"
        \/ /\ s.fx[i].api = "postMessage"
           /\ s.fx[i].type \notin {"load-decisions", "load-resources",
                                   "selection-info"}}

\* the events of a load
Loads(s) == Posts(s, "load-decisions") \cup Posts(s, "load-resources")

\* C15: when the document shown is not the one the plugin is bound to,
\* every message and every selection change first binds the plugin to the
\* document shown and loads both collections as a start of the plugin in
\* that document loads them, keeping nothing of what was in memory; the
\* load events come before the save call and the events of the command
\* and before the last selection-info, and a create appends to the
\* collection loaded.
C15_ReloadBeforeCommand ==
    currentDocumentId # DocumentId(liveDoc) =>
        LET fresh == Restarted(Here)
        IN /\ \A m \in Messages(env) :
                 \A saveOk \in SaveOutcomes(env, m) :
                    LET s == OnMessage(Here, m, saveOk)
                        key == KeyOf(m.type)
                    IN /\ s.cur = DocumentId(liveDoc)
                       /\ Posts(s, "load-decisions") # {}
                       /\ Posts(s, "load-resources") # {}
                       /\ \A i \in Loads(s) : \A j \in Answers(s) : i < j
                       /\ Answers(s) # {}
                       /\ IF m.type \in CreateTypes
                          THEN SubSeq(CollectionOf(s, key), 1,
                                      Len(CollectionOf(s, key)) - 1)
                                  = CollectionOf(fresh, key)
                          ELSE /\ s.decisions = fresh.decisions
                               /\ s.resources = fresh.resources
           /\ LET s == OnSelectionChange(Here)
                  last == CHOOSE j \in Posts(s, "selection-info") :
                             \A k \in Posts(s, "selection-info") : k <= j
              IN /\ s.cur = DocumentId(liveDoc)
                 /\ s.decisions = fresh.decisions
                 /\ s.resources = fresh.resources
                 /\ Posts(s, "load-decisions") # {}
                 /\ Posts(s, "load-resources") # {}
                 /\ \A i \in Loads(s) : i < last

\* C15, a case: the host shows fileB while the plugin is bound to fileA and
\* holds the decision created there; a selection change leaves in memory
\* the decisions of fileB
C15_Witness ==
    /\ liveDoc = "fileB"
    /\ currentDocumentId = DocumentId("fileA")
    /\ Len(decisions) = 1
    /\ Get(decisions[1], "author") = "alice"
    /\ OnSelectionChange(Here).decisions
          = Decoded(stored["fileB"][DECISIONS_KEY])
    /\ Get(OnSelectionChange(Here).decisions[1], "author") = "bob"

\* the terminal outcomes among the host calls of a handler: the events
\* that answer the message and the error notifications of a command
Terminal(s) ==
    {i \in Answers(s) : s.fx[i].api = "postMessage"}
    \cup {i \in Errors(s) : s.fx[i].text # "Error loading saved data"}

\* the messages of this run that are not navigation requests, each with
\* what its save call returns
Requests ==
    {c \in Messages(env) \X BOOLEAN :
        /\ c[1].type \notin NavigateTypes
        /\ c[2] \in SaveOutcomes(env, c[1])}

\* an edit that names an id the collection, as the handler finds it, does
\* not hold
EditOfMissingId(msg) ==
    /\ msg.type \in EditTypes
    /\ NamedId(msg) \notin Ids(CollectionOf(Seen, KeyOf(msg.type)))

\* C16, as stated: the handler of a create, an edit, a delete or a query
\* emits exactly one terminal outcome, never none and never two.
C16_ExactlyOneOutcome ==
    \A c \in Requests : Cardinality(Terminal(Handled(c))) = 1

\* C16, amended: the handler of a create, of a delete, of an edit that
\* names an id the collection holds, and of a query emits exactly one
\* terminal outcome: the success event or the information asked for when
\* the save call succeeds or there is none, an error notification when it
\* fails.  An edit that names an id the collection does not hold emits
\* none.  A navigation request emits no event: without a node id it does
\* nothing; with one it starts one navigation, whose every step either
\* goes on silently or ends it with exactly one notification, or with
\* none when the timer callback throws.
C16_OneOutcomeUnlessIdMissing ==
    /\ \A c \in Requests :
          LET s == Handled(c)
              outcome == Terminal(s)
          IN IF EditOfMissingId(c[1]) THEN outcome = {}
             ELSE /\ Cardinality(outcome) = 1
                  /\ \A i \in outcome :
                        IF c[2] THEN s.fx[i].api = "postMessage"
                        ELSE s.fx[i].api = "notify"
    /\ \A m \in {x \in Messages(env) : x.type \in NavigateTypes} :
          LET s == OnMessage(Here, m, TRUE)
          IN /\ Terminal(s) = {}
             /\ Notes(s) = {}
             /\ s.tasks =
                   IF Truthy(m.nodeId)
                   THEN Seen.tasks
                           (+) SetToBag({Task("navigate", "find", liveDoc,
                                              [id |-> m.nodeId], <<>>)})
                   ELSE Seen.tasks
    /\ \A t \in {x \in BagToSet(tasks) : x.kind = "navigate"} :
          \A hostOk \in FontOutcomes(env) :
             LET s == Step(Here, t, hostOk)
                 thrown == t.pc = "timer"
                           /\ (~hostOk \/ currentPage[t.doc]
                                             # PageOfNode(t.decision.id))
             IN /\ Answers(s) = {}
                /\ IF BagCardinality(s.tasks) = BagCardinality(tasks)
                   THEN Notes(s) = {}
                   ELSE /\ BagCardinality(s.tasks) = BagCardinality(tasks) - 1
                        /\ Cardinality(Notes(s)) = (IF thrown THEN 0 ELSE 1)

\* C16, a case: the old resource has been deleted, a resource created
\* since is in memory, and an edit that names the old id is answered by
\* nothing, although its handler ran (it reloaded)
C16_Witness ==
    /\ Len(resources) = 1
    /\ "0" \notin Ids(resources)
    /\ \E c \in CommandsOf({"edit-resource"}) :
          /\ NamedId(c[1]) = "0"
          /\ Terminal(Handled(c)) = {}
          /\ Loads(Handled(c)) # {}

\* C17: while a part of a handler is still pending on an await (its visual
\* log update, or the rebuild of a reload it started), no handler of
\* another message or of a selection change begins: the only steps taken
\* are resumptions of what is pending (and the passing of time).
C17_HandlersRunToCompletion ==
    [][tasks # EmptyBag => (TaskStep \/ Tick)]_vars

\* a blob is absent; a blob is there and does not decode
Absent(blob) == ~BlobTruthy(blob)
Undecodable(blob) == BlobTruthy(blob) /\ ParseThrows(blob)

\* the last event of a type among the host calls made
LastPost(s, type) ==
    CHOOSE i \in Posts(s, type) : \A j \in Posts(s, type) : j <= i

\* C18: a load, at a start of the plugin or at a reload, of a document in
\* which the blob of a collection is absent or does not decode leaves
\* that collection empty in memory and ends by reporting an empty list
\* for it to the UI; it shows the notification 'Error loading saved data'
\* exactly when a blob does not decode; and it raises nothing: the
\* command that caused the reload is carried out, and a create whose save
\* call succeeds is reported.
C18_FailedLoadGivesEmpty ==
    /\ \A loaded \in {Restarted(Here), Reloaded(Here)} :
          LET failures == {i \in Notes(loaded) :
                              loaded.fx[i].text = "Error loading saved data"}
          IN /\ \A key \in {DECISIONS_KEY, RESOURCES_KEY} :
                   LET blob == stored[liveDoc][key]
                   IN /\ (Absent(blob) \/ Undecodable(blob)) =>
                            /\ CollectionOf(loaded, key) = <<>>
                            /\ Posts(loaded, LoadType(key)) # {}
                            /\ Carried(loaded.fx[LastPost(loaded,
                                                          LoadType(key))])
                                  = <<>>
                      /\ Undecodable(blob) => Cardinality(failures) = 1
             /\ (\A key \in {DECISIONS_KEY, RESOURCES_KEY} :
                    ~Undecodable(stored[liveDoc][key])) => failures = {}
    /\ \A c \in CommandsOf(CreateTypes) :
          LET s == Handled(c)
              key == KeyOf(c[1].type)
          IN (c[2] /\ (\E k \in {DECISIONS_KEY, RESOURCES_KEY} :
                         Undecodable(stored[liveDoc][k]))) =>
                /\ Cardinality(Posts(s, SuccessType(c[1].type))) = 1
                /\ Len(CollectionOf(s, key)) = 1

\* C18, a case: the plugin has reloaded in fileB, whose resources blob does
\* not decode; both collections are empty in memory, also the decisions,
\* whose blob holds a record
C18_Witness ==
    /\ liveDoc = "fileB"
    /\ currentDocumentId = DocumentId("fileB")
    /\ Undecodable(stored["fileB"][RESOURCES_KEY])
    /\ Len(Decoded(stored["fileB"][DECISIONS_KEY])) = 1
    /\ resources = <<>>
    /\ decisions = <<>>

\* the visual-log operations among the pending tasks
MirrorTasks == {t \in BagToSet(tasks) : t.kind \in {"add", "update", "rebuild"}}

\* the resumption of a visual-log task fails: the font load it waits on is
\* rejected, the container is missing, or the row cannot be constructed
StepFails(t, fontOk) ==
    CASE t.pc = "page" -> ~fontOk
      [] t.pc \in {"switch", "start"} -> page[t.doc] # "ready"
      [] t.pc = "loop" -> ~fontOk \/ RowThrows(Head(t.todo))
      [] OTHER -> ~fontOk \/ RowThrows(t.decision)

\* C19: when a visual-log operation fails, at a resumption or in the part a
\* handler runs, the operation ends there: both collections in memory,
\* the bound document id and every persisted blob are as they were, no
\* row is added, nothing is notified and no event is emitted other than
\* the selection-info that ends a load; a decision command whose save
\* call succeeded has emitted its success event and reported no error of
\* its own, whatever the state of the visual log.
C19_MirrorFailureStaysInside ==
    /\ \A t \in MirrorTasks :
          \A fontOk \in FontOutcomes(env) :
             LET s == Step(Here, t, fontOk)
             IN StepFails(t, fontOk) =>
                   /\ s.decisions = decisions
                   /\ s.resources = resources
                   /\ s.stored = stored
                   /\ s.cur = currentDocumentId
                   /\ s.tasks = tasks (-) SetToBag({t})
                   /\ Len(s.rows[t.doc]) <= Len(rows[t.doc])
                   /\ Notes(s) = {}
                   /\ \A i \in 1..Len(s.fx) :
                         /\ s.fx[i].api = "postMessage"
                         /\ s.fx[i].type = "selection-info"
    /\ \A c \in CommandsOf(DecisionTypes) :
          LET s == Handled(c)
          IN (c[2] /\ ~EditOfMissingId(c[1])) =>
                /\ Cardinality(Posts(s, SuccessType(c[1].type))) = 1
                /\ \A i \in Errors(s) :
                      s.fx[i].text = "Error loading saved data"
                /\ SameList(s.decisions,
                            Decoded(s.stored[s.live][DECISIONS_KEY]))
                /\ page[liveDoc] = "bare" =>
                      /\ s.rows = rows
                      /\ \A t \in BagToSet(s.tasks) : t.kind # "update"

\* C19, a case: the font load failed while the log page was being made,
\* which left the page without its container; the decision created is in
\* memory and in the blob, no row was drawn and nothing is pending
C19_Witness ==
    /\ env.canvas
    /\ env.fontFaults
    /\ page[liveDoc] = "bare"
    /\ rows[liveDoc] = <<>>
    /\ tasks = EmptyBag
    /\ Len(decisions) = 1
    /\ SameList(decisions, Decoded(stored[liveDoc][DECISIONS_KEY]))

\* the navigation requests waiting for figma.getNodeByIdAsync whose node
\* is not in the document or has no page above it
LostNavigations ==
    {t \in BagToSet(tasks) :
        /\ t.kind = "navigate"
        /\ t.pc = "find"
        /\ (~NodeExists(t.decision.id) \/ PageOfNode(t.decision.id) = Undefined)}

\* the text shown for a navigation that fails while it looks for its target
FailureText(id, hostOk) ==
    IF hostOk /\ NodeExists(id) THEN NoPageText ELSE NotFoundText

\* C20: a navigate-to-node message that carries a node id changes neither
\* the current page nor the selection nor the viewport while it is handled
\* and starts one lookup; when the lookup finds no node, or a node with no
\* page above it, the request ends with exactly one notification, the
\* failure text for its case, no event, no further lookup, and the
\* current page, the selection and the viewport as they were.
C20_FailedNavigationOnlyNotifies ==
    /\ \A m \in NavigateMessages :
          ("navigate-to-node" \in env.types /\ Truthy(Get(m, "nodeId"))) =>
             LET s == OnMessage(Here, m, TRUE)
                 seen == Seen
             IN /\ s.currentPage = seen.currentPage
                /\ s.selection = seen.selection
                /\ s.viewport = seen.viewport
                /\ Notes(s) = Notes(seen)
                /\ s.tasks =
                      seen.tasks (+)
                         SetToBag({Task("navigate", "find", liveDoc,
                                        [id |-> m.nodeId], <<>>)})
    /\ \A t \in LostNavigations :
          \A hostOk \in FontOutcomes(env) :
             LET s == Step(Here, t, hostOk)
             IN /\ Len(s.fx) = 1
                /\ s.fx[1].api = "notify"
                /\ s.fx[1].text = FailureText(t.decision.id, hostOk)
                /\ s.tasks = tasks (-) SetToBag({t})
                /\ s.currentPage = currentPage
                /\ s.selection = selection
                /\ s.viewport = viewport

\* C20, a case: after a navigation that succeeded, so that a node is
\* selected and in view, a request for a node that is not in the document
\* waits for its lookup and no other navigation is pending
C20_Witness ==
    /\ selection[liveDoc] = <<"1:2">>
    /\ viewport[liveDoc] = "1:2"
    /\ \E t \in LostNavigations : ~NodeExists(t.decision.id)
    /\ BagCardinality(tasks) = 1

\* C21: a command whose save call fails leaves its change in memory and the
\* blob as it was, so that memory and storage differ; and while the plugin
\* is bound to the document shown and holds such an unsaved change, the
\* handling of a later command starts from the collections in memory: it
\* leaves the collection it is not about as it was, a create appends to
\* the collection in memory, and an edit or a delete changes only the
\* record it names.
C21_UnsavedChangeOutlivesCommands ==
    /\ \A c \in CommandsOf(CreateTypes) :
          LET s == Handled(c)
              key == KeyOf(c[1].type)
          IN ~c[2] =>
                /\ s.stored = stored
                /\ Len(CollectionOf(s, key)) = Len(CollectionOf(Seen, key)) + 1
                /\ ~SameList(CollectionOf(s, key),
                             Decoded(s.stored[s.live][key]))
    /\ (/\ currentDocumentId = DocumentId(liveDoc)
        /\ \E k \in {DECISIONS_KEY, RESOURCES_KEY} :
              ~SameList(CollectionOf(Here, k), Decoded(stored[liveDoc][k])))
       => \A c \in Commands :
             LET s == Handled(c)
                 key == KeyOf(c[1].type)
                 old == CollectionOf(Here, key)
                 new == CollectionOf(s, key)
             IN /\ \A k \in {DECISIONS_KEY, RESOURCES_KEY} \ {key} :
                      CollectionOf(s, k) = CollectionOf(Here, k)
                /\ CASE c[1].type \in CreateTypes ->
                           SubSeq(new, 1, Len(new) - 1) = old
                     [] c[1].type \in EditTypes ->
                           /\ Len(new) = Len(old)
                           /\ \A i \in 1..Len(old) :
                                 \/ new[i] = old[i]
                                 \/ Get(old[i], "id") = NamedId(c[1])
                     [] OTHER ->
                           new = FilterOut(old, c[1].id)

\* C22: while the plugin is bound to the document shown, the
\* document-change check does nothing: it makes no host call (no
\* load-decisions, no load-resources, no other event), leaves both
\* collections in memory and the bound id as they were, starts no rebuild
\* of the visual log and leaves its rows in place.
C22_CheckIsIdleWhenBound ==
    currentDocumentId = DocumentId(liveDoc) =>
        LET s == CheckForDocumentChange(Here)
        IN /\ s.fx = <<>>
           /\ s.decisions = decisions
           /\ s.resources = resources
           /\ s.cur = currentDocumentId
           /\ s.tasks = tasks
           /\ s.rows = rows
           /\ s.page = page

\* C23: a command handler changes its collection, calls the save and emits
\* the result event in the part it runs before its first await, in that
\* order and after the loads of its document-change check: the blob a
\* successful save writes is the encoding of the collection the handler
\* has just changed.  What a handler leaves pending on an await never
\* reads back into or changes a collection or a blob and makes no save
\* call and emits no result event, so that a handler interleaved with it
\* finds the collections as the last handler left them.
C23_MutateSaveEmitInOneStep ==
    /\ \A c \in Commands :
          LET s == Handled(c)
              key == KeyOf(c[1].type)
              acks == Posts(s, SuccessType(c[1].type))
          IN /\ Cardinality(Saves(s, key)) <= 1
             /\ \A j \in Saves(s, key) :
                   /\ \A i \in Loads(s) : i < j
                   /\ \A i \in acks : j < i
                   /\ s.fx[j].ok =>
                         s.stored[s.live][key]
                            = JSONstringify(CollectionOf(s, key))
             /\ \A t \in BagToSet(s.tasks) :
                   t.kind \in {"add", "update", "rebuild", "navigate"}
    /\ \A t \in BagToSet(tasks) :
          \A fontOk \in FontOutcomes(env) :
             LET s == Step(Here, t, fontOk)
             IN /\ s.decisions = decisions
                /\ s.resources = resources
                /\ s.stored = stored
                /\ s.cur = currentDocumentId
                /\ Answers(s) = {}
                /\ Loads(s) = {}

\* C23, a case: the row update of an edit is pending together with
\* another visual-log operation, the edit having been handled while that
\* one waited, and the blob reads as the collection in memory
C23_Witness ==
    /\ \E t \in MirrorTasks : t.kind = "update"
    /\ BagCardinality(tasks) = 2
    /\ Len(decisions) >= 1
    /\ SameList(decisions, Decoded(stored[liveDoc][DECISIONS_KEY]))

\* C24: a create or an edit whose save call succeeds removes no record from
\* storage: in every document and for both collections, the blob decodes
\* afterwards to a list that holds, position by position, every record it
\* held before, the record the edit names being replaced by a record with
\* the same id; this also after loads in which a blob did not decode.
C24_SaveKeepsStoredRecords ==
    \A c \in CommandsOf(CreateTypes \cup EditTypes) :
        LET s == Handled(c)
        IN c[2] =>
              \A d \in Docs :
                 \A key \in {DECISIONS_KEY, RESOURCES_KEY} :
                    LET before == Decoded(stored[d][key])
                        after == Decoded(s.stored[d][key])
                    IN /\ Len(after) >= Len(before)
                       /\ \A i \in 1..Len(before) :
                             \/ after[i] = before[i]
                             \/ /\ c[1].type \in EditTypes
                                /\ d = liveDoc
                                /\ key = KeyOf(c[1].type)
                                /\ Get(before[i], "id") = NamedId(c[1])
                                /\ Get(after[i], "id") = NamedId(c[1])

RECURSIVE Settled(_)
\* the state once everything pending has resumed, one after the other, with
\* every host call succeeding
Settled(s) ==
    IF s.tasks = EmptyBag THEN s
    ELSE Settled(Step(s, CHOOSE t \in BagToSet(s.tasks) : TRUE, TRUE))

\* the rows are those of the decisions, one row each, newest first
RowsShow(list, ds) ==
    /\ Len(list) = Len(ds)
    /\ \E f \in [1..Len(list) -> 1..Len(ds)] :
          /\ \A i, j \in 1..Len(list) : i # j => f[i] # f[j]
          /\ \A i \in 1..Len(list) : list[i] = CreateDecisionRow(ds[f[i]])
          /\ \A i, j \in 1..Len(list) :
                i < j => ds[f[i]]["timestamp"] >= ds[f[j]]["timestamp"]

\* C25: in a document whose log page has its container, or has no log page
\* yet, a load of the plugin followed by nothing but the rebuild it starts
\* leaves the log with exactly one row per decision loaded, newest first,
\* and no row from before, whatever collection was loaded, the empty one
\* included.
C25_RebuildShowsLoadedDecisions ==
    page[liveDoc] # "bare" =>
        LET s == Settled(Restarted(Here))
        IN RowsShow(s.rows[liveDoc], s.decisions)

C27_OnlyOwnRowTouched ==
    \A c \in CommandsOf({"edit-decision", "delete-decision"}) :
        LET s == Handled(c)
            seen == Seen
            i == FindIndex(seen.decisions, NamedId(c[1]))
        IN (c[2] /\ i # 0) =>
              \A k \in 1..Len(rows[liveDoc]) :
                 LET r == rows[liveDoc][k]
                 IN r # CreateDecisionRow(seen.decisions[i]) =>
                       Count(s.rows[liveDoc], r) >= Count(rows[liveDoc], r)

\* C28: a call of getOrCreateDesignDecisionsPage makes a page only when
\* the document has none named 'Design Decisions', so that a second call,
\* also one that overlaps the first at its await, finds that page and
\* makes nothing; and in a document whose log page the plugin makes, the
\* page holds its 'Decision Log' container, with title and header, once no
\* call that is making the page is pending.
C28_EnsurePageIdempotent ==
    /\ LET s == GetOrCreatePageSync(Here)
       IN /\ s.page[liveDoc] # "none"
          /\ GetOrCreatePageSync(s) = s
          /\ AwaitPage(s, "found") = "found"
    /\ env.canvas =>
          \A d \in Docs :
             (\A t \in MirrorTasks : ~(t.doc = d /\ t.pc = "page"))
                => page[d] # "bare"

C30_AtMostOneRecordTouched ==
    \A c \in CommandsOf({"edit-decision", "delete-decision"}) :
       IF c[1].type = "delete-decision"
       THEN LET s == DeleteDecision(Here, c[1], c[2])
            IN Len(s.decisions) >= Len(decisions) - 1
       ELSE LET s == EditDecision(Here, c[1], c[2])
            IN /\ Len(s.decisions) = Len(decisions)
               /\ Cardinality({i \in 1..Len(decisions) :
                                 s.decisions[i] # decisions[i]}) <= 1


\* C31: the UI creates decisions with a status of the five or with none,
\* and edits them with records that carry a status of the five or none;
\* every decision in memory has a status among proposed, accepted,
\* rejected, deprecated and superseded.
C31_StatusAmongTheFive ==
    \A i \in 1..Len(decisions) :
       Get(decisions[i], "status") \in
          {"proposed", "accepted", "rejected", "deprecated", "superseded"}


\* C32: at a load, at a start of the plugin or at a reload, of a document
\* whose decisions blob decodes, the decisions in memory after the load are
\* the records decoded from that blob, and the last load-decisions event of
\* the load carries them, whether the resources blob of the document is
\* present, absent or does not decode.
C32_DecisionsLoadAlone ==
    \A loaded \in {Restarted(Here), Reloaded(Here)} :
       LET blob == stored[liveDoc][DECISIONS_KEY]
       IN (BlobTruthy(blob) /\ ~ParseThrows(blob)) =>
             /\ loaded.decisions = JSONparse(blob)
             /\ Posts(loaded, "load-decisions") # {}
             /\ Carried(loaded.fx[LastPost(loaded, "load-decisions")])
                   = JSONparse(blob)


\* the list a UI holds that applies one event to the list it held:
\* load-decisions replaces the list, decision-created appends the record,
\* decision-updated replaces the first record of the id, decision-deleted
\* drops the records of the id; the other host calls leave it
UiApplies(list, event) ==
    IF event.api # "postMessage" THEN list
    ELSE CASE event.type = "load-decisions" -> event.decisions
           [] event.type = "decision-created" -> Append(list, event.decision)
           [] event.type = "decision-updated" ->
                 LET i == FindIndex(list, Get(event.decision, "id"))
                 IN IF i = 0 THEN list
                    ELSE [list EXCEPT ![i] = event.decision]
           [] event.type = "decision-deleted" -> FilterOut(list, event.id)
           [] OTHER -> list

RECURSIVE UiAfter(_, _)
\* the list it holds after the host calls fx, in order
UiAfter(list, fx) ==
    IF fx = <<>> THEN list
    ELSE UiAfter(UiApplies(list, Head(fx)), Tail(fx))

\* the decisions that the events among the host calls fx carry, from the
\* last load-decisions on
ToldBy(fx) ==
    LET loads == {i \in 1..Len(fx) : fx[i].api = "postMessage"
                                      /\ fx[i].type = "load-decisions"}
        from == IF loads = {} THEN 1
                ELSE CHOOSE i \in loads : \A j \in loads : j <= i
    IN UNION {CASE fx[i].api # "postMessage" -> {}
                [] fx[i].type = "load-decisions" ->
                      {fx[i].decisions[k] : k \in 1..Len(fx[i].decisions)}
                [] fx[i].type \in {"decision-created", "decision-updated"} ->
                      {fx[i].decision}
                [] OTHER -> {} : i \in from..Len(fx)}

\* C33, as stated: after a command on decisions, a bare message or a
\* selection change, every decision in memory is carried by a
\* load-decisions, decision-created or decision-updated event that the
\* handler emitted from its last load on (or was in memory before, when
\* the handler did not load), and a UI that held the list in memory before
\* and applies the events of the handler in order holds the list in
\* memory.
C33_UiToldOfEveryRecord ==
    \A s \in {Handled(c) : c \in CommandsOf(DecisionTypes)}
             \cup {MessageListener(Here), OnSelectionChange(Here)} :
       /\ \A i \in 1..Len(s.decisions) :
             \/ s.decisions[i] \in ToldBy(s.fx)
             \/ /\ Posts(s, "load-decisions") = {}
                /\ \E k \in 1..Len(decisions) : decisions[k] = s.decisions[i]
       /\ UiAfter(decisions, s.fx) = s.decisions


\* C33, amended: the same holds of every handler whose save call succeeds
\* and of every handler that makes none.  When the save call of a command
\* fails, the handler emits no event for the change it leaves in memory:
\* the UI then holds the list that the handler loaded, which is the list
\* persisted, whatever memory holds.
C33_UiToldUnlessSaveFailed ==
    /\ \A s \in {Handled(c) : c \in {x \in CommandsOf(DecisionTypes) : x[2]}}
                \cup {MessageListener(Here), OnSelectionChange(Here)} :
          /\ \A i \in 1..Len(s.decisions) :
                \/ s.decisions[i] \in ToldBy(s.fx)
                \/ /\ Posts(s, "load-decisions") = {}
                   /\ \E k \in 1..Len(decisions) :
                         decisions[k] = s.decisions[i]
          /\ UiAfter(decisions, s.fx) = s.decisions
    /\ \A c \in CommandsOf(DecisionTypes) :
          LET s == Handled(c)
          IN ~c[2] =>
                /\ Posts(s, SuccessType(c[1].type)) = {}
                /\ Posts(s, "load-decisions") # {}
                /\ UiAfter(decisions, s.fx)
                      = Decoded(s.stored[s.live][DECISIONS_KEY])

\* C33, a case: an edit of a decision in memory whose save call succeeds
\* emits decision-updated with the record as stored, and the UI that
\* applies it holds the two decisions in memory
C33_Witness ==
    \E c \in CommandsOf({"edit-decision"}) :
       LET s == Handled(c)
       IN /\ c[2]
          /\ Posts(s, "decision-updated") # {}
          /\ Len(s.decisions) = 2
          /\ s.decisions # Seen.decisions
          /\ UiAfter(decisions, s.fx) = s.decisions

\* C34: whenever the timer callback of a navigate-to-node is due, the
\* current page of the document is the page that holds the node the
\* request named, whatever was handled since the page switch, and the
\* callback selects that node and brings it into view.
C34_TimerFindsItsPage ==
    \A t \in BagToSet(tasks) :
       (t.kind = "navigate" /\ t.pc = "timer") =>
          /\ currentPage[t.doc] = PageOfNode(t.decision.id)
          /\ LET s == Step(Here, t, TRUE)
             IN /\ s.selection[t.doc] = <<t.decision.id>>
                /\ s.viewport[t.doc] = t.decision.id


\* C35, as stated: an edit of a decision in memory whose save call succeeds
\* leaves the record with a timestamp greater than the one it had.
C35_EditedLaterThanBefore ==
    \A c \in CommandsOf({"edit-decision"}) :
       LET old == Seen.decisions
           i == FindIndex(old, NamedId(c[1]))
       IN (i # 0 /\ c[2]) =>
             Handled(c).decisions[i]["timestamp"] > old[i]["timestamp"]

\* C35, amended: such an edit leaves the record with the reading of the
\* clock at the edit as its timestamp, whatever timestamp the incoming
\* record carries; that is never less than the timestamp the record had,
\* and it is equal to it exactly when the record was created or last
\* edited in the same millisecond.
C35_EditedAtTheClock ==
    \A c \in CommandsOf({"edit-decision"}) :
       LET old == Seen.decisions
           i == FindIndex(old, NamedId(c[1]))
           new == Handled(c).decisions
       IN (i # 0 /\ c[2]) =>
             /\ new[i]["timestamp"] = now
             /\ new[i]["timestamp"] >= old[i]["timestamp"]
             /\ new[i]["timestamp"] = old[i]["timestamp"]
                   <=> old[i]["timestamp"] = now

\* C35, a case: a decision created at the second millisecond is in memory
\* next to the old one and the clock has not moved since: an edit of it
\* leaves its timestamp as it was, an edit of the old one gives it a
\* greater one
C35_Witness ==
    /\ Len(decisions) = 2
    /\ decisions[1]["timestamp"] = 0
    /\ decisions[2]["timestamp"] = 2
    /\ now = 2
    /\ \E c \in CommandsOf({"edit-decision"}) :
          /\ c[2]
          /\ FindIndex(Seen.decisions, NamedId(c[1])) = 2
          /\ Handled(c).decisions[2]["timestamp"] = 2
          /\ Handled(c).decisions[2]["title"] # decisions[2]["title"]
    /\ \E c \in CommandsOf({"edit-decision"}) :
          /\ c[2]
          /\ FindIndex(Seen.decisions, NamedId(c[1])) = 1
          /\ Handled(c).decisions[1]["timestamp"] = 2


\* C36: at a load, at a start of the plugin or at a reload, every
\* load-decisions event carries the id of the document the plugin is bound
\* to and the display name of that document, and the last one carries the
\* decisions in memory.
C36_LoadEventIsComplete ==
    \A loaded \in {Restarted(Here), Reloaded(Here)} :
       /\ Posts(loaded, "load-decisions") # {}
       /\ \A i \in Posts(loaded, "load-decisions") :
             /\ Get(loaded.fx[i], "documentId") = loaded.cur
             /\ loaded.cur = DocumentId(liveDoc)
             /\ Get(loaded.fx[i], "fileName") = FileName(liveDoc)
       /\ loaded.fx[LastPost(loaded, "load-decisions")].decisions
             = loaded.decisions


\* C37: while the plugin is bound to the document shown and no operation
\* of the visual log is pending, a create-resource, edit-resource or
\* delete-resource message, handled to the end of everything it starts,
\* leaves the decisions in memory, the decisions blob of the document and
\* the page and rows of the visual log as they were.
C37_ResourceCommandsLeaveDecisions ==
    (currentDocumentId = DocumentId(liveDoc) /\ tasks = EmptyBag) =>
       \A c \in CommandsOf(ResourceTypes) :
          LET s == Settled(Drain(Handled(c)))
          IN /\ SameList(s.decisions, decisions)
             /\ s.stored[liveDoc][DECISIONS_KEY]
                   = stored[liveDoc][DECISIONS_KEY]
             /\ s.page = page
             /\ s.rows = rows


\* C38, as stated: the selection-info event that sendSelectionInfo posts
\* carries the id and the name of the element and the name of the page
\* shown when one element is selected, and null for the three when no
\* element or several are selected.
C38_NullsUnlessOneSelected ==
    LET s == SendSelectionInfo(Here)
        event == s.fx[Len(s.fx)]
        sel == selection[liveDoc]
    IN /\ event.type = "selection-info"
       /\ IF Len(sel) = 1
          THEN /\ event.nodeId = sel[1]
               /\ event.nodeName = NodeName(sel[1])
               /\ event.pageName = currentPage[liveDoc]
          ELSE /\ event.nodeId = Undefined
               /\ event.nodeName = Undefined
               /\ event.pageName = Undefined

\* C38, amended: with one element selected the event carries its id, its
\* name and the name of the page shown; with none selected the three are
\* null; with several selected the id is null, the name is the text
\* 'Multiple items (n)' for the n elements selected and the page name is
\* the name of the page shown.
C38_SelectionInfoByCount ==
    LET s == SendSelectionInfo(Here)
        event == s.fx[Len(s.fx)]
        sel == selection[liveDoc]
    IN /\ Len(s.fx) = 1
       /\ event.type = "selection-info"
       /\ CASE Len(sel) = 1 ->
                  /\ event.nodeId = sel[1]
                  /\ event.nodeName = NodeName(sel[1])
                  /\ event.pageName = currentPage[liveDoc]
            [] Len(sel) = 0 ->
                  /\ event.nodeId = Undefined
                  /\ event.nodeName = Undefined
                  /\ event.pageName = Undefined
            [] OTHER ->
                  /\ event.nodeId = Undefined
                  /\ event.nodeName =
                        "Multiple items (" \o NumToString(Len(sel)) \o ")"
                  /\ event.pageName = currentPage[liveDoc]

\* C38, a case: the user has selected two elements of 'Page 1'
C38_Witness ==
    /\ Len(selection[liveDoc]) = 2
    /\ currentPage[liveDoc] = HomePage
    /\ SendSelectionInfo(Here).fx[1].nodeName = "Multiple items (2)"

====
